---- MODULE Spec2Model ----
(***************************************************************************)
(* Tenders-Map: the REST backend (authentication, registration, points)    *)
(* and the journal (comments) panel of the client.                         *)
(*                                                                         *)
(* The repository holds several revisions of the backend.  Each is a build *)
(* of the server; the variable build names the one that is deployed:       *)
(*   part_004   src/unnamed/part_004          auth + points (authRequired) *)
(*   index_v1   src/backend/index.js:1-140    points, no authentication    *)
(*   index_v2   src/backend/index.js:142-257  auth only, login checks empty*)
(*   part_003   src/unnamed/part_003          auth only, registration open *)
(* A request to a route that a build does not define is answered by the    *)
(* framework, not by code of the repository, and is not modelled.          *)
(***************************************************************************)
EXTENDS Integers, Sequences, FiniteSets, TLC

VARIABLES
    build,      \* the backend revision that is running
    serving,    \* whether the server process is running
    now,        \* wall clock, in days
    dbUp,       \* whether pool.query reaches the database
    users,      \* table users: set of rows
    userSeq,    \* users_id_seq: the next SERIAL value
    points,     \* table points: set of rows
    pointSeq,   \* points_id_seq: the next SERIAL value
    everIds,    \* history: every id a points row ever had
    issued,     \* history: every token signToken has returned, with its user
    req,        \* the HTTP request handled last (none once the environment moves)
    resp,       \* the HTTP response to it
    queries,    \* the statements the handler sent to pool.query, in order
    comments,   \* table comments: set of rows
    commentSeq, \* the next comment id
    cUser,      \* client: the signed-in user (App state user)
    cToken,     \* client: localStorage "token"
    jKind,      \* JournalPanel prop kind
    jEntity,    \* JournalPanel prop entity?.id, 0 for null
    selectedPointId,  \* App state selectedPointId, 0 for null
    selectedTunnelId, \* App state selectedTunnelId, 0 for null
    items,      \* JournalPanel state items
    draft,      \* JournalPanel state draft
    editingId,  \* JournalPanel state editingId, 0 for null
    editingBody,    \* JournalPanel state editingBody
    busyActionId,   \* JournalPanel state busyActionId: 0 for null, -1 for "add"
    jErr,       \* JournalPanel state err
    loading,    \* JournalPanel state loading
    calls,      \* the client's fetches that have not yet returned to their caller
    tunnels,    \* table tunnels: set of rows
    tunnelSeq,  \* the next tunnel id
    mode,       \* App state mode: "checking", "login" or "app"
    cPoints,    \* App state points: the cached rows
    cTunnels,   \* App state tunnels: the cached rows
    authNotice, \* App state authNotice
    apiError,   \* App state apiError
    prov        \* history: for each stored point, who created and who last updated it

serverVars == <<build, serving, now, dbUp, users, userSeq, points, pointSeq, everIds,
                issued, req, resp, queries>>

journalVars == <<comments, commentSeq, cUser, cToken, jKind, jEntity, selectedPointId, selectedTunnelId, items, draft,
                 editingId, editingBody, busyActionId, jErr, loading, calls>>

tunnelVars == <<tunnels, tunnelSeq>>

appVars == <<mode, cPoints, cTunnels, authNotice, apiError>>

panelVars == <<jKind, jEntity, selectedPointId, selectedTunnelId, items, draft, editingId, editingBody, busyActionId,
               jErr, loading>>

(***************************************************************************)
(* Bounds                                                                  *)
(***************************************************************************)
MaxNow      == 30   \* the clock stops advancing at this day
TickDays    == 30   \* days per clock step
MaxPointId  == 2    \* creates are issued while points_id_seq <= MaxPointId
MaxTokens   == 2    \* logins are issued while fewer tokens exist
MaxUserId   == 3    \* registrations are issued while users_id_seq <= this
MaxCommentId == 2   \* comments are created while the next comment id <= this
MaxInflight == 1    \* the panel starts a fetch while fewer are outstanding
MaxAppInflight == 2 \* App starts a fetch while fewer are outstanding
MaxTunnelId == 2    \* tunnels are created while the next tunnel id <= this

(***************************************************************************)
(* JavaScript values as they arrive in a JSON body                         *)
(***************************************************************************)
JUndef    == [t |-> "undefined", s |-> "", n |-> 0]
JNull     == [t |-> "null", s |-> "", n |-> 0]
JStr(str) == [t |-> "string", s |-> str, n |-> 0]
JNum(num) == [t |-> "number", s |-> "", n |-> num]

\* IEEE doubles: a finite value, NaN or Infinity
Fin(v) == [k |-> "fin", v |-> v]
NaN    == [k |-> "nan", v |-> 0]
Inf    == [k |-> "inf", v |-> 0]

Digits == <<"0", "1", "2", "3", "4", "5", "6", "7", "8", "9">>

Ch(s, i) == SubSeq(s, i, i)

Rest(s) == SubSeq(s, 2, Len(s))

Front(s) == SubSeq(s, 1, Len(s) - 1)

IsDigit(c) == \E d \in 1..10 : Digits[d] = c

DigitVal(c) == (CHOOSE d \in 1..10 : Digits[d] = c) - 1

RECURSIVE AllDigits(_)
AllDigits(s) == IF s = "" THEN TRUE ELSE IsDigit(Ch(s, 1)) /\ AllDigits(Rest(s))

RECURSIVE DigitsVal(_)
DigitsVal(s) ==
    IF s = "" THEN 0 ELSE DigitsVal(Front(s)) * 10 + DigitVal(Ch(s, Len(s)))

RECURSIVE NumToStr(_)
NumToStr(n) ==
    IF n < 10 THEN Digits[n + 1] ELSE NumToStr(n \div 10) \o Digits[(n % 10) + 1]

\* String.prototype.trim
RECURSIVE TrimLeft(_)
TrimLeft(s) == IF s # "" /\ Ch(s, 1) = " " THEN TrimLeft(Rest(s)) ELSE s

RECURSIVE TrimRight(_)
TrimRight(s) == IF s # "" /\ Ch(s, Len(s)) = " " THEN TrimRight(Front(s)) ELSE s

Trim(s) == TrimRight(TrimLeft(s))

\* String.prototype.toLowerCase, on the letters the model uses
UpperChars == <<"A", "B", "C", "E", "R">>
LowerChars == <<"a", "b", "c", "e", "r">>

LowerChar(c) ==
    IF \E i \in 1..Len(UpperChars) : UpperChars[i] = c
    THEN LowerChars[CHOOSE i \in 1..Len(UpperChars) : UpperChars[i] = c]
    ELSE c

RECURSIVE ToLowerCase(_)
ToLowerCase(s) ==
    IF s = "" THEN "" ELSE LowerChar(Ch(s, 1)) \o ToLowerCase(Rest(s))

\* ToBoolean
Truthy(v) ==
    CASE v.t = "string" -> v.s # ""
      [] v.t = "number" -> v.n # 0
      [] OTHER -> FALSE

\* a || b
JsOr(a, b) == IF Truthy(a) THEN a ELSE b

\* String(v)
JsString(v) ==
    CASE v.t = "string" -> v.s
      [] v.t = "number" -> NumToStr(v.n)
      [] v.t = "null" -> "null"
      [] OTHER -> "undefined"

\* Number("..."): StringToNumber
StrToNumber(s) ==
    LET t == Trim(s) IN
    IF t = "" THEN Fin(0)
    ELSE IF AllDigits(t) THEN Fin(DigitsVal(t))
    ELSE IF t = "Infinity" THEN Inf
    ELSE NaN

\* Number(v)
JsNumber(v) ==
    CASE v.t = "number" -> Fin(v.n)
      [] v.t = "string" -> StrToNumber(v.s)
      [] v.t = "null" -> Fin(0)
      [] OTHER -> NaN

\* Number.isFinite
IsFinite(x) == x.k = "fin"

\* JSON.stringify of a number: NaN and Infinity become null
NumJson(x) == IF x.k = "fin" THEN JNum(x.v) ELSE JNull

(***************************************************************************)
(* Builds and their routes                                                 *)
(***************************************************************************)
B_part004 == "part_004"
B_indexV1 == "index_v1"
B_indexV2 == "index_v2"
B_part003 == "part_003"
B_part002 == "part_002"
B_part002b == "part_002b"

Builds == {B_part004, B_indexV1, B_indexV2, B_part003, B_part002, B_part002b}

\* builds that define /api/auth/register, /api/auth/login and /api/auth/me
AuthBuilds == {B_part004, B_indexV2, B_part003}

\* builds that define the /api/points routes
PointsBuilds == {B_part004, B_indexV1}

\* the revision whose points routes have no try/catch
UncaughtBuilds == {B_part002}

\* the revision whose points routes fill in defaults, without authentication
DefaultingBuilds == {B_part002b}

\* every revision that serves /api/points
PointsRevisions == PointsBuilds \cup UncaughtBuilds \cup DefaultingBuilds

(***************************************************************************)
(* HTTP messages                                                           *)
(***************************************************************************)
BodyFields == {"email", "password", "title", "director", "winner", "note",
               "status", "lat", "lng", "body", "user_id", "user_email", "login",
               "name", "path"}

\* a JSON body: a field that is not sent reads as undefined
EmptyBody == [f \in BodyFields |-> JUndef]

NoToken == [kind |-> "empty", sub |-> 0, email |-> "", iat |-> 0, exp |-> 0,
            sig |-> [sub |-> 0, email |-> "", iat |-> 0, exp |-> 0, key |-> ""]]

\* a text that is not a JWT
GarbageToken == [NoToken EXCEPT !.kind = "garbage"]

\* the Authorization header: scheme, whitespace, credentials
NoHeader == [present |-> FALSE, scheme |-> "", ws |-> 0, tok |-> NoToken]

Header(scheme, ws, tok) ==
    [present |-> TRUE, scheme |-> scheme, ws |-> ws, tok |-> tok]

Bearer(tok) == Header("Bearer", 1, tok)

NoUser == [id |-> 0, email |-> ""]

NoReq == [op |-> "none", hdr |-> NoHeader, body |-> EmptyBody, id |-> "",
          kind |-> "", eid |-> 0, cid |-> 0]

Request(op, hdr, body, id) ==
    [op |-> op, hdr |-> hdr, body |-> body, id |-> id, kind |-> "", eid |-> 0, cid |-> 0]

\* a request to /api/{kind}/{eid}/comments[/{cid}]
CommentRequest(op, hdr, kind, eid, cid, body) ==
    [op |-> op, hdr |-> hdr, body |-> body, id |-> "", kind |-> kind, eid |-> eid,
     cid |-> cid]

NoResp == [status |-> 0, body |-> [kind |-> "none"]]

Reply(status, body) == [status |-> status, body |-> body]

ErrBody(msg) == [kind |-> "error", error |-> msg]

ErrBodyDetails(msg, d) == [kind |-> "error", error |-> msg, details |-> d]

\* Messages are written without diacritics.
\* String(e) of the error pool.query throws when the database is unreachable
DbErrorText == "Error: connect ECONNREFUSED"

(***************************************************************************)
(* Tokens: signToken, jwt.verify, authRequired                             *)
(***************************************************************************)
JWT_SECRET == "dev-secret-change-me"

TokenTTL == 30

\* the HMAC of a payload under a key, kept symbolic
Signature(sub, email, iat, exp, key) ==
    [sub |-> sub, email |-> email, iat |-> iat, exp |-> exp, key |-> key]

JwtSign(sub, email, t, key) ==
    [kind |-> "jwt", sub |-> sub, email |-> email, iat |-> t, exp |-> t + TokenTTL,
     sig |-> Signature(sub, email, t, t + TokenTTL, key)]

signToken(user, t) == JwtSign(user.id, user.email, t, JWT_SECRET)

\* jwt.verify(token, JWT_SECRET) does not throw
JwtVerify_NoExpiry(tok, t) ==
    /\ tok.kind = "jwt"
    /\ tok.sig = Signature(tok.sub, tok.email, tok.iat, tok.exp, JWT_SECRET)

\* a verification that also asks for the token to be the one of the session
\* the client still holds, as a server that ended sessions at logout would
JwtVerify_SessionOnly(tok, t) ==
    /\ tok.kind = "jwt"
    /\ tok.sig = Signature(tok.sub, tok.email, tok.iat, tok.exp, JWT_SECRET)
    /\ t < tok.exp
    /\ tok = cToken

JwtVerify(tok, t) ==
    /\ tok.kind = "jwt"
    /\ tok.sig = Signature(tok.sub, tok.email, tok.iat, tok.exp, JWT_SECRET)
    /\ t < tok.exp

\* h.match(/^Bearer\s+(.+)$/i)
BearerMatch(h) ==
    /\ h.present
    /\ ToLowerCase(h.scheme) = "bearer"
    /\ h.ws >= 1
    /\ h.tok.kind # "empty"

authRequired(h, t) ==
    IF ~BearerMatch(h)
    THEN [pass |-> FALSE, user |-> NoUser, resp |-> Reply(401, ErrBody("Brak tokenu"))]
    ELSE IF JwtVerify(h.tok, t)
    THEN [pass |-> TRUE, user |-> [id |-> h.tok.sub, email |-> h.tok.email],
          resp |-> NoResp]
    ELSE [pass |-> FALSE, user |-> NoUser,
          resp |-> Reply(401, ErrBody("Niepoprawny token"))]

(***************************************************************************)
(* Credentials                                                             *)
(***************************************************************************)
\* bcrypt.hash(password, cost), kept symbolic; the salt plays no role here
BcryptHash(pw, cost) == [alg |-> "bcrypt", cost |-> cost, pw |-> pw]

\* bcrypt.compare(password, hash)
BcryptCompare(pw, h) == h.pw = pw

\* the accounts provisioned out of band
InitUsers ==
    { [id |-> 1, email |-> "a@x", password_hash |-> BcryptHash("pwd-a1", 12)],
      [id |-> 2, email |-> "b@x", password_hash |-> BcryptHash("pwd-b2", 12)] }

\* SELECT id, email, password_hash FROM users WHERE email=$1
UsersByEmail(e) == {u \in users : u.email = e}

(***************************************************************************)
(* POST /api/auth/login                                                    *)
(***************************************************************************)
LoginEmail(b) == ToLowerCase(Trim(JsString(JsOr(b.email, JStr("")))))

LoginPassword(b) == JsString(JsOr(b.password, JStr("")))

\* the catch clause of the login handler
LoginCatch ==
    IF build = B_part003
    THEN Reply(500, ErrBody("DB error"))
    ELSE Reply(500, ErrBodyDetails("DB error", DbErrorText))

\* the handler's result: response, the branch that produced it, the queries
\* sent, and the user a token is signed for
LoginHandler_Leaky(b) ==
    LET email == LoginEmail(b)
        password == LoginPassword(b)
        found == UsersByEmail(email)
    IN  IF build = B_indexV2 /\ (email = "" \/ password = "")
        THEN [resp |-> Reply(400, ErrBody("Brak danych logowania")),
              branch |-> "missing", queries |-> <<>>, user |-> NoUser]
        ELSE IF ~dbUp
        THEN [resp |-> LoginCatch, branch |-> "catch",
              queries |-> <<"SELECT users">>, user |-> NoUser]
        ELSE IF found = {}
        THEN [resp |-> Reply(401, ErrBody("Nie ma takiego konta")), branch |-> "nouser",
              queries |-> <<"SELECT users">>, user |-> NoUser]
        ELSE LET user == CHOOSE u \in found : TRUE IN
             IF ~BcryptCompare(password, user.password_hash)
             THEN [resp |-> Reply(401, ErrBody("Zle dane")), branch |-> "badpw",
                   queries |-> <<"SELECT users">>, user |-> NoUser]
             ELSE [resp |-> Reply(200, [kind |-> "session",
                                        token |-> signToken(user, now),
                                        user |-> [id |-> user.id, email |-> user.email]]),
                   branch |-> "ok", queries |-> <<"SELECT users">>,
                   user |-> [id |-> user.id, email |-> user.email]]

LoginHandler(b) ==
    LET email == LoginEmail(b)
        password == LoginPassword(b)
        found == UsersByEmail(email)
    IN  IF build = B_indexV2 /\ (email = "" \/ password = "")
        THEN [resp |-> Reply(400, ErrBody("Brak danych logowania")),
              branch |-> "missing", queries |-> <<>>, user |-> NoUser]
        ELSE IF ~dbUp
        THEN [resp |-> LoginCatch, branch |-> "catch",
              queries |-> <<"SELECT users">>, user |-> NoUser]
        ELSE IF found = {}
        THEN [resp |-> Reply(401, ErrBody("Zle dane")), branch |-> "nouser",
              queries |-> <<"SELECT users">>, user |-> NoUser]
        ELSE LET user == CHOOSE u \in found : TRUE IN
             IF ~BcryptCompare(password, user.password_hash)
             THEN [resp |-> Reply(401, ErrBody("Zle dane")), branch |-> "badpw",
                   queries |-> <<"SELECT users">>, user |-> NoUser]
             ELSE [resp |-> Reply(200, [kind |-> "session",
                                        token |-> signToken(user, now),
                                        user |-> [id |-> user.id, email |-> user.email]]),
                   branch |-> "ok", queries |-> <<"SELECT users">>,
                   user |-> [id |-> user.id, email |-> user.email]]

\* what a handler records when it signs a token
Issue(tok, user, by) == [tok |-> tok, user |-> user, by |-> by]

LoginBodies ==
    { [EmptyBody EXCEPT !.email = e, !.password = p] :
        e \in {JUndef, JStr(""), JStr("a@x"), JStr(" A@x "), JStr("c@x")},
        p \in {JUndef, JStr("pwd-a1"), JStr("wrong1")} }
    \cup { [EmptyBody EXCEPT !.email = JStr("B@X"), !.password = JStr("pwd-b2")] }

Login(b) ==
    LET out == LoginHandler(b)
        newIssued == IF out.branch = "ok"
                     THEN issued \cup {Issue(out.resp.body.token, out.user, "login")}
                     ELSE issued
    IN  /\ build \in AuthBuilds
        /\ Cardinality(newIssued) <= MaxTokens
        /\ req' = Request("login", NoHeader, b, "")
        /\ resp' = out.resp
        /\ queries' = out.queries
        /\ issued' = newIssued
        /\ UNCHANGED <<build, serving, now, dbUp, users, userSeq, points, pointSeq, everIds>>
        /\ UNCHANGED <<journalVars, tunnelVars, appVars, prov>>

(***************************************************************************)
(* POST /api/auth/register                                                 *)
(***************************************************************************)
\* part_003: registration enabled
RegisterEnabled(b) ==
    LET email == LoginEmail(b)
        password == LoginPassword(b)
        user == [id |-> userSeq, email |-> email]
        row == [id |-> userSeq, email |-> email,
                password_hash |-> BcryptHash(password, 12)]
    IN  IF email = "" \/ password = ""
        THEN [resp |-> Reply(400, ErrBody("Email i haslo sa wymagane")),
              branch |-> "missing", queries |-> <<>>, users |-> users,
              userSeq |-> userSeq, user |-> NoUser]
        ELSE IF Len(password) < 6
        THEN [resp |-> Reply(400, ErrBody("Haslo min. 6 znakow")),
              branch |-> "short", queries |-> <<>>, users |-> users,
              userSeq |-> userSeq, user |-> NoUser]
        ELSE IF ~dbUp
        THEN [resp |-> Reply(500, ErrBody("DB error")),
              branch |-> "catch", queries |-> <<"INSERT users">>, users |-> users,
              userSeq |-> userSeq, user |-> NoUser]
        ELSE IF UsersByEmail(email) # {}
        \* unique violation: the sequence value is consumed all the same
        THEN [resp |-> Reply(409, ErrBody("Email juz istnieje")),
              branch |-> "duplicate", queries |-> <<"INSERT users">>, users |-> users,
              userSeq |-> userSeq + 1, user |-> NoUser]
        ELSE [resp |-> Reply(200, [kind |-> "session",
                                   token |-> signToken(user, now), user |-> user]),
              branch |-> "ok", queries |-> <<"INSERT users">>,
              users |-> users \cup {row}, userSeq |-> userSeq + 1, user |-> user]

\* part_004, index_v2: registration disabled
RegisterDisabled(b) ==
    [resp |-> Reply(403, ErrBody("Rejestracja jest wylaczona")),
     branch |-> "disabled", queries |-> <<>>, users |-> users,
     userSeq |-> userSeq, user |-> NoUser]

RegisterHandler_Open(b) == RegisterEnabled(b)

RegisterHandler(b) ==
    IF build = B_part003 THEN RegisterEnabled(b) ELSE RegisterDisabled(b)

RegisterBodies ==
    { [EmptyBody EXCEPT !.email = e, !.password = p] :
        e \in {JUndef, JStr(" A@x "), JStr("C@x")},
        p \in {JUndef, JStr("short"), JStr("pwd-c3")} }

Register(b) ==
    LET out == RegisterHandler(b)
        newIssued == IF out.branch = "ok"
                     THEN issued \cup {Issue(out.resp.body.token, out.user, "register")}
                     ELSE issued
    IN  /\ build \in AuthBuilds
        /\ out.userSeq <= MaxUserId + 1
        /\ Cardinality(newIssued) <= MaxTokens
        /\ req' = Request("register", NoHeader, b, "")
        /\ resp' = out.resp
        /\ queries' = out.queries
        /\ users' = out.users
        /\ userSeq' = out.userSeq
        /\ issued' = newIssued
        /\ UNCHANGED <<build, serving, now, dbUp, points, pointSeq, everIds>>
        /\ UNCHANGED <<journalVars, tunnelVars, appVars, prov>>

(***************************************************************************)
(* GET /api/auth/me                                                        *)
(***************************************************************************)
MeHandler(h) ==
    LET auth == authRequired(h, now) IN
    IF ~auth.pass THEN auth.resp
    ELSE Reply(200, [kind |-> "me", user |-> auth.user])

\* the Authorization headers a caller can send: none, a token the server
\* issued (under several spellings of the scheme), a token whose payload was
\* altered, a token signed with another key, and text that is no token
OtherUser(tok) == IF tok.sub = 1 THEN 2 ELSE 1

Tampered(tok) == [tok EXCEPT !.sub = OtherUser(tok)]

Prolonged(tok) == [tok EXCEPT !.exp = tok.exp + TokenTTL]

Forged(sub, email) == JwtSign(sub, email, now, "attacker-key")

Headers ==
    {NoHeader, Bearer(NoToken), Bearer(GarbageToken), Bearer(Forged(1, "a@x"))}
    \cup { Bearer(i.tok) : i \in issued }
    \cup { Header("bearer", 2, i.tok) : i \in issued }
    \cup { Header("Basic", 1, i.tok) : i \in issued }
    \cup { Header("Bearer", 0, i.tok) : i \in issued }
    \cup { Bearer(Tampered(i.tok)) : i \in issued }
    \cup { Bearer(Prolonged(i.tok)) : i \in issued }

Me(h) ==
    /\ build \in AuthBuilds
    /\ req' = Request("me", h, EmptyBody, "")
    /\ resp' = MeHandler(h)
    /\ queries' = <<>>
    /\ UNCHANGED <<build, serving, now, dbUp, users, userSeq, points, pointSeq, everIds, issued>>
    /\ UNCHANGED <<journalVars, tunnelVars, appVars, prov>>

(***************************************************************************)
(* Table points.  A text column holds JStr(..) or JNull (SQL NULL); lat    *)
(* and lng hold doubles.  created_at holds the time of the insert (DEFAULT *)
(* NOW(), in microseconds): the inserts of successive requests get         *)
(* increasing times, and the column holds the rank of the insert among     *)
(* them.  part_004 neither selects nor returns created_at, so the column   *)
(* is kept at 0 under that build.                                          *)
(***************************************************************************)
STATUSES == {"planowany", "przetarg", "realizacja", "nieaktualny"}

PointRow(id, title, director, winner, note, status, lat, lng) ==
    [id |-> id, title |-> title, director |-> director, winner |-> winner,
     note |-> note, status |-> status, lat |-> lat, lng |-> lng,
     created_at |-> IF build = B_part004 THEN 0 ELSE id]

\* RETURNING id, title, director, winner, note, status, lat, lng, as JSON
RowJson(r) ==
    [kind |-> "row", id |-> r.id, title |-> r.title, director |-> r.director,
     winner |-> r.winner, note |-> r.note, status |-> r.status,
     lat |-> NumJson(r.lat), lng |-> NumJson(r.lng)]

\* RETURNING *, as JSON
RowJsonStar(r) ==
    [kind |-> "row", id |-> r.id, title |-> r.title, director |-> r.director,
     winner |-> r.winner, note |-> r.note, status |-> r.status,
     lat |-> NumJson(r.lat), lng |-> NumJson(r.lng), created_at |-> r.created_at]

\* the orders in which a SELECT ... ORDER BY key DESC can return the table:
\* rows with equal keys come in any order
Key(r, col) == IF col = "id" THEN r.id ELSE r.created_at

\* the same rows, oldest first
OrderByAsc(col) ==
    LET n == Cardinality(points)
    IN  { s \in [1..n -> points] :
            /\ \A i, j \in 1..n : i # j => s[i] # s[j]
            /\ \A i, j \in 1..n : i < j => Key(s[i], col) <= Key(s[j], col) }

OrderByDesc(col) ==
    LET n == Cardinality(points)
    IN  { s \in [1..n -> points] :
            /\ \A i, j \in 1..n : i # j => s[i] # s[j]
            /\ \A i, j \in 1..n : i < j => Key(s[i], col) >= Key(s[j], col) }

\* the row of an id given as a number, if any
RowsById(x) == {r \in points : x.k = "fin" /\ r.id = x.v}

\* how node-postgres sends a parameter for a text column
PgText(v) ==
    CASE v.t = "string" -> JStr(v.s)
      [] v.t = "number" -> JStr(NumToStr(v.n))
      [] OTHER -> JNull

\* a parameter for a double precision column: float8in of its text
PgFloat(v) ==
    CASE v.t = "number" -> [err |-> FALSE, null |-> FALSE, val |-> Fin(v.n)]
      [] v.t = "string" ->
            LET t == Trim(v.s) IN
            IF t # "" /\ AllDigits(t)
            THEN [err |-> FALSE, null |-> FALSE, val |-> Fin(DigitsVal(t))]
            ELSE IF t = "Infinity"
            THEN [err |-> FALSE, null |-> FALSE, val |-> Inf]
            ELSE [err |-> TRUE, null |-> FALSE, val |-> NaN]
      [] OTHER -> [err |-> FALSE, null |-> TRUE, val |-> NaN]

\* the :id parameter for an integer column: int4in of its text
PgInt(str) ==
    LET t == Trim(str) IN
    IF t # "" /\ AllDigits(t) THEN [err |-> FALSE, val |-> Fin(DigitsVal(t))]
    ELSE [err |-> TRUE, val |-> NaN]

\* a handler's result: the response, the queries sent, the table afterwards
Outcome(r, q, pts, seq) == [resp |-> r, queries |-> q, points |-> pts, pointSeq |-> seq]

Rejected(r) == Outcome(r, <<>>, points, pointSeq)

\* the catch clause of the points handlers
PointsCatch(q) ==
    IF build = B_indexV1
    THEN Outcome(Reply(500, ErrBody("DB error")), q, points, pointSeq)
    ELSE Outcome(Reply(500, ErrBodyDetails("DB error", DbErrorText)), q, points, pointSeq)

\* String(req.body.f || dflt)
TextOr(v, dflt) == JsString(JsOr(v, JStr(dflt)))

\* the text a column holds: NULL reads as no text at all
Stored(v) == IF v.t = "null" THEN "NULL" ELSE JsString(v)

(***************************************************************************)
(* GET /api/points                                                         *)
(***************************************************************************)
ListPart004(h, order) ==
    LET auth == authRequired(h, now) IN
    IF ~auth.pass THEN Rejected(auth.resp)
    ELSE IF ~dbUp THEN PointsCatch(<<"SELECT points">>)
    ELSE Outcome(Reply(200, [kind |-> "rows",
                             rows |-> [i \in DOMAIN order |-> RowJson(order[i])]]),
                 <<"SELECT points">>, points, pointSeq)

ListIndexV1(h, order) ==
    IF ~dbUp THEN PointsCatch(<<"SELECT points">>)
    ELSE Outcome(Reply(200, [kind |-> "rows",
                             rows |-> [i \in DOMAIN order |-> RowJsonStar(order[i])]]),
                 <<"SELECT points">>, points, pointSeq)

ListHandler(h, order) ==
    IF build = B_part004 THEN ListPart004(h, order) ELSE ListIndexV1(h, order)

ListOrders == IF build = B_part004 THEN OrderByDesc("id") ELSE OrderByDesc("created_at")

(***************************************************************************)
(* POST /api/points                                                        *)
(***************************************************************************)
\* the id of the new row taken as max(id) + 1 instead of the sequence
CreatePart004_MaxId(h, b) ==
    LET auth == authRequired(h, now)
        ids == {r.id : r \in points}
        id == IF ids = {} THEN 1 ELSE (CHOOSE m \in ids : \A k \in ids : k <= m) + 1
        row == PointRow(id, JStr(TextOr(b.title, "Nowy punkt")),
                        JStr(TextOr(b.director, "")), JStr(TextOr(b.winner, "")),
                        JStr(TextOr(b.note, "")), JStr(TextOr(b.status, "planowany")),
                        JsNumber(b.lat), JsNumber(b.lng))
    IN  IF ~auth.pass THEN Rejected(auth.resp)
        ELSE IF ~IsFinite(JsNumber(b.lat)) \/ ~IsFinite(JsNumber(b.lng))
        THEN Rejected(Reply(400, ErrBody("Brak poprawnych wspolrzednych")))
        ELSE IF ~dbUp THEN PointsCatch(<<"INSERT points">>)
        ELSE Outcome(Reply(200, RowJson(row)), <<"INSERT points">>,
                     points \cup {row}, pointSeq + 1)

CreatePart004(h, b) ==
    LET auth == authRequired(h, now)
        title == TextOr(b.title, "Nowy punkt")
        director == TextOr(b.director, "")
        winner == TextOr(b.winner, "")
        note == TextOr(b.note, "")
        status == TextOr(b.status, "planowany")
        lat == JsNumber(b.lat)
        lng == JsNumber(b.lng)
        row == PointRow(pointSeq, JStr(title), JStr(director), JStr(winner),
                        JStr(note), JStr(status), lat, lng)
    IN  IF ~auth.pass THEN Rejected(auth.resp)
        ELSE IF ~IsFinite(lat) \/ ~IsFinite(lng)
        THEN Rejected(Reply(400, ErrBody("Brak poprawnych wspolrzednych")))
        ELSE IF ~dbUp THEN PointsCatch(<<"INSERT points">>)
        ELSE Outcome(Reply(200, RowJson(row)), <<"INSERT points">>,
                     points \cup {row}, pointSeq + 1)

CreateIndexV1(h, b) ==
    LET title == PgText(b.title)
        note == PgText(b.note)
        status == PgText(b.status)
        lat == PgFloat(b.lat)
        lng == PgFloat(b.lng)
        \* director and winner are not in the column list
        row == PointRow(pointSeq, title, JNull, JNull, note, status, lat.val, lng.val)
    IN  IF ~dbUp THEN PointsCatch(<<"INSERT points">>)
        \* invalid input syntax for type double precision
        ELSE IF lat.err \/ lng.err THEN PointsCatch(<<"INSERT points">>)
        \* NOT NULL violation: the sequence value is consumed all the same
        ELSE IF title = JNull \/ lat.null \/ lng.null
        THEN Outcome(Reply(500, ErrBody("DB error")), <<"INSERT points">>,
                     points, pointSeq + 1)
        ELSE Outcome(Reply(200, RowJsonStar(row)), <<"INSERT points">>,
                     points \cup {row}, pointSeq + 1)

\* part_002, second revision: [title || "Nowy punkt", note || "",
\* status || "planowany", lat, lng]
CreatePart002b(h, b) ==
    LET title == PgText(JsOr(b.title, JStr("Nowy punkt")))
        note == PgText(JsOr(b.note, JStr("")))
        status == PgText(JsOr(b.status, JStr("planowany")))
        lat == PgFloat(b.lat)
        lng == PgFloat(b.lng)
        \* director and winner are not in the column list
        row == PointRow(pointSeq, title, JNull, JNull, note, status, lat.val, lng.val)
    IN  IF ~dbUp THEN PointsCatch(<<"INSERT points">>)
        \* invalid input syntax for type double precision
        ELSE IF lat.err \/ lng.err THEN PointsCatch(<<"INSERT points">>)
        \* NOT NULL violation: the sequence value is consumed all the same
        ELSE IF lat.null \/ lng.null
        THEN Outcome(Reply(500, ErrBodyDetails("DB error", DbErrorText)),
                     <<"INSERT points">>, points, pointSeq + 1)
        ELSE Outcome(Reply(200, RowJsonStar(row)), <<"INSERT points">>,
                     points \cup {row}, pointSeq + 1)

CreateHandler(h, b) ==
    IF build = B_part004 THEN CreatePart004(h, b)
    ELSE IF build = B_part002b THEN CreatePart002b(h, b)
    ELSE CreateIndexV1(h, b)

(***************************************************************************)
(* PUT /api/points/:id                                                     *)
(***************************************************************************)
\* an update that only the user who created the point may make
UpdatePart004_OwnerOnly(h, id, b) ==
    LET auth == authRequired(h, now)
        n == JsNumber(JStr(id))
        hit == RowsById(n)
    IN  IF ~auth.pass THEN Rejected(auth.resp)
        ELSE IF ~IsFinite(n) THEN Rejected(Reply(400, ErrBody("Zle ID")))
        ELSE IF ~dbUp THEN PointsCatch(<<"UPDATE points">>)
        ELSE IF hit = {}
        THEN Outcome(Reply(404, ErrBody("Nie znaleziono punktu")), <<"UPDATE points">>,
                     points, pointSeq)
        ELSE IF \E p \in prov : p.id = n.v /\ p.creator # auth.user.id
        THEN Outcome(Reply(403, ErrBody("Forbidden")), <<"UPDATE points">>,
                     points, pointSeq)
        ELSE LET old == CHOOSE r \in hit : TRUE
                 new == [old EXCEPT !.title = JStr(TextOr(b.title, "")),
                                    !.director = JStr(TextOr(b.director, "")),
                                    !.winner = JStr(TextOr(b.winner, "")),
                                    !.note = JStr(TextOr(b.note, "")),
                                    !.status = JStr(TextOr(b.status, "planowany"))]
             IN  Outcome(Reply(200, RowJson(new)), <<"UPDATE points">>,
                         (points \ {old}) \cup {new}, pointSeq)

\* an update that also moves the point to the coordinates in the body
UpdatePart004_Geo(h, id, b) ==
    LET auth == authRequired(h, now)
        n == JsNumber(JStr(id))
        hit == RowsById(n)
    IN  IF ~auth.pass THEN Rejected(auth.resp)
        ELSE IF ~IsFinite(n) THEN Rejected(Reply(400, ErrBody("Zle ID")))
        ELSE IF ~dbUp THEN PointsCatch(<<"UPDATE points">>)
        ELSE IF hit = {}
        THEN Outcome(Reply(404, ErrBody("Nie znaleziono punktu")), <<"UPDATE points">>,
                     points, pointSeq)
        ELSE LET old == CHOOSE r \in hit : TRUE
                 lat == JsNumber(b.lat)
                 new == [old EXCEPT !.title = JStr(TextOr(b.title, "")),
                                    !.director = JStr(TextOr(b.director, "")),
                                    !.winner = JStr(TextOr(b.winner, "")),
                                    !.note = JStr(TextOr(b.note, "")),
                                    !.status = JStr(TextOr(b.status, "planowany")),
                                    !.lat = IF IsFinite(lat) THEN lat ELSE old.lat]
             IN  Outcome(Reply(200, RowJson(new)), <<"UPDATE points">>,
                         (points \ {old}) \cup {new}, pointSeq)

\* an update that keeps the stored value of a field the body leaves empty
UpdatePart004_Merge(h, id, b) ==
    LET auth == authRequired(h, now)
        n == JsNumber(JStr(id))
        hit == RowsById(n)
    IN  IF ~auth.pass THEN Rejected(auth.resp)
        ELSE IF ~IsFinite(n) THEN Rejected(Reply(400, ErrBody("Zle ID")))
        ELSE IF ~dbUp THEN PointsCatch(<<"UPDATE points">>)
        ELSE IF hit = {}
        THEN Outcome(Reply(404, ErrBody("Nie znaleziono punktu")), <<"UPDATE points">>,
                     points, pointSeq)
        ELSE LET old == CHOOSE r \in hit : TRUE
                 new == [old EXCEPT !.title = JStr(TextOr(b.title, Stored(old.title))),
                                    !.director = JStr(TextOr(b.director, Stored(old.director))),
                                    !.winner = JStr(TextOr(b.winner, Stored(old.winner))),
                                    !.note = JStr(TextOr(b.note, Stored(old.note))),
                                    !.status = JStr(TextOr(b.status, Stored(old.status)))]
             IN  Outcome(Reply(200, RowJson(new)), <<"UPDATE points">>,
                         (points \ {old}) \cup {new}, pointSeq)

UpdatePart004(h, id, b) ==
    LET auth == authRequired(h, now)
        n == JsNumber(JStr(id))
        title == TextOr(b.title, "")
        director == TextOr(b.director, "")
        winner == TextOr(b.winner, "")
        note == TextOr(b.note, "")
        status == TextOr(b.status, "planowany")
        hit == RowsById(n)
    IN  IF ~auth.pass THEN Rejected(auth.resp)
        ELSE IF ~IsFinite(n) THEN Rejected(Reply(400, ErrBody("Zle ID")))
        ELSE IF ~dbUp THEN PointsCatch(<<"UPDATE points">>)
        ELSE IF hit = {}
        THEN Outcome(Reply(404, ErrBody("Nie znaleziono punktu")), <<"UPDATE points">>,
                     points, pointSeq)
        ELSE LET old == CHOOSE r \in hit : TRUE
                 new == [old EXCEPT !.title = JStr(title), !.director = JStr(director),
                                    !.winner = JStr(winner), !.note = JStr(note),
                                    !.status = JStr(status)]
             IN  Outcome(Reply(200, RowJson(new)), <<"UPDATE points">>,
                         (points \ {old}) \cup {new}, pointSeq)

UpdateIndexV1(h, id, b) ==
    LET n == PgInt(id)
        title == PgText(b.title)
        note == PgText(b.note)
        status == PgText(b.status)
        hit == RowsById(n.val)
    IN  IF ~dbUp THEN PointsCatch(<<"UPDATE points">>)
        \* invalid input syntax for type integer
        ELSE IF n.err THEN PointsCatch(<<"UPDATE points">>)
        \* res.json(undefined): an empty body
        ELSE IF hit = {}
        THEN Outcome(Reply(200, [kind |-> "empty"]), <<"UPDATE points">>,
                     points, pointSeq)
        \* NOT NULL violation on title
        ELSE IF title = JNull THEN PointsCatch(<<"UPDATE points">>)
        ELSE LET old == CHOOSE r \in hit : TRUE
                 new == [old EXCEPT !.title = title, !.note = note, !.status = status]
             IN  Outcome(Reply(200, RowJsonStar(new)), <<"UPDATE points">>,
                         (points \ {old}) \cup {new}, pointSeq)

\* part_002, second revision: SET title=$1, note=$2, status=$3 with
\* [title || "", note || "", status || "planowany", id]
UpdatePart002b(h, id, b) ==
    LET n == PgInt(id)
        title == PgText(JsOr(b.title, JStr("")))
        note == PgText(JsOr(b.note, JStr("")))
        status == PgText(JsOr(b.status, JStr("planowany")))
        hit == RowsById(n.val)
    IN  IF ~dbUp THEN PointsCatch(<<"UPDATE points">>)
        \* invalid input syntax for type integer
        ELSE IF n.err THEN PointsCatch(<<"UPDATE points">>)
        \* res.json(result.rows[0] || null)
        ELSE IF hit = {}
        THEN Outcome(Reply(200, [kind |-> "null"]), <<"UPDATE points">>,
                     points, pointSeq)
        ELSE LET old == CHOOSE r \in hit : TRUE
                 new == [old EXCEPT !.title = title, !.note = note, !.status = status]
             IN  Outcome(Reply(200, RowJsonStar(new)), <<"UPDATE points">>,
                         (points \ {old}) \cup {new}, pointSeq)

UpdateHandler(h, id, b) ==
    IF build = B_part004 THEN UpdatePart004(h, id, b)
    ELSE IF build = B_part002b THEN UpdatePart002b(h, id, b)
    ELSE UpdateIndexV1(h, id, b)

(***************************************************************************)
(* DELETE /api/points/:id                                                  *)
(***************************************************************************)
DeletePart004(h, id) ==
    LET auth == authRequired(h, now)
        n == JsNumber(JStr(id))
        hit == RowsById(n)
    IN  IF ~auth.pass THEN Rejected(auth.resp)
        ELSE IF ~IsFinite(n) THEN Rejected(Reply(400, ErrBody("Zle ID")))
        ELSE IF ~dbUp THEN PointsCatch(<<"DELETE points">>)
        ELSE IF hit = {}
        THEN Outcome(Reply(404, ErrBody("Nie znaleziono punktu")), <<"DELETE points">>,
                     points, pointSeq)
        ELSE Outcome(Reply(200, [kind |-> "ok", ok |-> TRUE, id |-> n.v]),
                     <<"DELETE points">>, points \ hit, pointSeq)

DeleteIndexV1(h, id) ==
    LET n == PgInt(id)
        hit == RowsById(n.val)
    IN  IF ~dbUp THEN PointsCatch(<<"DELETE points">>)
        ELSE IF n.err THEN PointsCatch(<<"DELETE points">>)
        ELSE Outcome(Reply(200, [kind |-> "ok", ok |-> TRUE]), <<"DELETE points">>,
                     points \ hit, pointSeq)

DeleteHandler(h, id) ==
    IF build = B_part004 THEN DeletePart004(h, id) ELSE DeleteIndexV1(h, id)

(***************************************************************************)
(* The points requests                                                     *)
(***************************************************************************)
Coords(lat, lng) == [EmptyBody EXCEPT !.lat = lat, !.lng = lng]

Titled(lat, lng) == [Coords(lat, lng) EXCEPT !.title = JStr("T")]

CreateBodies ==
    { Coords(JNum(52), JNum(21)),
      [Titled(JNum(52), JNum(21)) EXCEPT !.status = JStr("bogus")],
      Coords(JNull, JNum(21)),
      Titled(JUndef, JNum(21)),
      Titled(JStr("Infinity"), JNum(21)) }

UpdateBodies ==
    { EmptyBody,
      [EmptyBody EXCEPT !.title = JStr("T2"), !.director = JStr("D"),
                        !.winner = JStr("W"), !.note = JStr("N"),
                        !.status = JStr("bogus"), !.lat = JNum(99)] }

\* the :id parameters sent: every id the sequence can have given, and a word
IdParams == {NumToStr(n) : n \in 1..MaxPointId} \cup {"abc"}

\* the tokens a caller of the points routes can hold: one that login signed
\* for the first account when the server started, or signs now
PointTokens == { signToken(u, t) : u \in {r \in users : r.id = 1}, t \in {0, now} }

\* the headers sent with points requests: none, or one of these tokens
PointHeaders == {NoHeader} \cup { Bearer(t) : t \in PointTokens }

\* history of a points request: a new row is its caller's, a row an update
\* returns was last updated by its caller (0 when the build asks for no token)
ProvAfter(r, out) ==
    LET who == IF build = B_part004 THEN authRequired(r.hdr, now).user.id ELSE 0
        updated == IF r.op = "update" /\ out.resp.status = 200
                      /\ out.resp.body.kind = "row"
                   THEN out.resp.body.id ELSE 0
        Old(id) == {p \in prov : p.id = id}
    IN  { [id |-> row.id,
           creator |-> IF Old(row.id) = {} THEN who
                       ELSE (CHOOSE p \in Old(row.id) : TRUE).creator,
           editor |-> IF row.id = updated THEN who
                      ELSE IF Old(row.id) = {} THEN 0
                      ELSE (CHOOSE p \in Old(row.id) : TRUE).editor] : row \in out.points }

\* The routes of part_002 are those of index.js without try/catch: where
\* index.js reaches its catch clause, the promise of the async handler is
\* rejected with nobody to handle it.  What follows depends on the Express
\* and Node versions the build runs on: Express 4 sends nothing, and Node
\* then either only warns (the request is never answered) or exits on the
\* unhandled rejection; Express 5 passes the error to its default handler,
\* which answers 500 with an HTML page.
NoAnswer == Reply(0, [kind |-> "unanswered"])

ProcessExit == Reply(0, [kind |-> "exit"])

HtmlError == Reply(500, [kind |-> "html"])

Uncaught(out) ==
    IF build \in UncaughtBuilds /\ out.resp.status = 500
    THEN { [out EXCEPT !.resp = r] : r \in {NoAnswer, ProcessExit, HtmlError} }
    ELSE {out}

\* what a points handler leaves on the server
ApplyStore(out) ==
    /\ resp' = out.resp
    /\ queries' = out.queries
    /\ points' = out.points
    /\ pointSeq' = out.pointSeq
    /\ everIds' = everIds \cup {r.id : r \in out.points}
    /\ serving' = (out.resp.body.kind # "exit")
    /\ UNCHANGED <<build, now, dbUp, users, userSeq, issued>>
    /\ prov' = ProvAfter(req', out)

Apply(out) ==
    /\ ApplyStore(out)
    /\ UNCHANGED <<journalVars, tunnelVars, appVars>>

ListPoints(h) ==
    /\ build \in PointsRevisions
    /\ serving
    /\ \E order \in ListOrders :
         /\ req' = Request("list", h, EmptyBody, "")
         /\ \E out \in Uncaught(ListHandler(h, order)) : Apply(out)

CreatePoint(h, b) ==
    /\ build \in PointsRevisions
    /\ serving
    /\ pointSeq <= MaxPointId
    /\ req' = Request("create", h, b, "")
    /\ \E out \in Uncaught(CreateHandler(h, b)) : Apply(out)

UpdatePoint(h, id, b) ==
    /\ build \in PointsRevisions
    /\ serving
    /\ req' = Request("update", h, b, id)
    /\ \E out \in Uncaught(UpdateHandler(h, id, b)) : Apply(out)

DeletePoint(h, id) ==
    /\ build \in PointsRevisions
    /\ serving
    /\ req' = Request("delete", h, EmptyBody, id)
    /\ \E out \in Uncaught(DeleteHandler(h, id)) : Apply(out)

(***************************************************************************)
(* Environment.  A step of the environment ends the last exchange, so that *)
(* req and resp are always read against the clock and the database state   *)
(* the request was handled in.                                             *)
(***************************************************************************)
Tick ==
    /\ now < MaxNow
    /\ now' = now + TickDays
    /\ req' = NoReq
    /\ resp' = NoResp
    /\ queries' = <<>>
    /\ UNCHANGED <<build, serving, dbUp, users, userSeq, points, pointSeq, everIds, issued>>
    /\ UNCHANGED <<journalVars, tunnelVars, appVars, prov>>

\* the database becomes unreachable, or reachable again
DbFail ==
    /\ dbUp
    /\ dbUp' = FALSE
    /\ req' = NoReq
    /\ resp' = NoResp
    /\ queries' = <<>>
    /\ UNCHANGED <<build, serving, now, users, userSeq, points, pointSeq, everIds, issued>>
    /\ UNCHANGED <<journalVars, tunnelVars, appVars, prov>>

DbRecover ==
    /\ ~dbUp
    /\ dbUp' = TRUE
    /\ req' = NoReq
    /\ resp' = NoResp
    /\ queries' = <<>>
    /\ UNCHANGED <<build, serving, now, users, userSeq, points, pointSeq, everIds, issued>>
    /\ UNCHANGED <<journalVars, tunnelVars, appVars, prov>>

InitServer(bs) ==
    /\ build \in bs
    /\ serving = TRUE
    /\ now = 0
    /\ dbUp = TRUE
    /\ users = InitUsers
    /\ userSeq = 3
    /\ points = {}
    /\ pointSeq = 1
    /\ everIds = {}
    /\ issued = {}
    /\ req = NoReq
    /\ resp = NoResp
    /\ queries = <<>>
    /\ comments = {}
    /\ commentSeq = 1
    /\ cUser = NoUser
    /\ cToken = NoToken
    /\ jKind = "tunnels"
    /\ jEntity = 0
    /\ selectedPointId = 0
    /\ selectedTunnelId = 0
    /\ items = <<>>
    /\ draft = ""
    /\ editingId = 0
    /\ editingBody = ""
    /\ busyActionId = 0
    /\ jErr = ""
    /\ loading = FALSE
    /\ calls = <<>>
    /\ tunnels = {}
    /\ tunnelSeq = 1
    /\ mode = "login"
    /\ cPoints = <<>>
    /\ cTunnels = <<>>
    /\ authNotice = ""
    /\ apiError = ""
    /\ prov = {}

vars == <<serverVars, journalVars, tunnelVars, appVars, prov>>

(***************************************************************************)
(* The authentication service                                              *)
(***************************************************************************)
Init == InitServer(AuthBuilds)

Next ==
    \/ \E b \in LoginBodies : Login(b)
    \/ \E b \in RegisterBodies : Register(b)
    \/ \E h \in Headers : Me(h)
    \/ Tick
    \/ DbFail
    \/ DbRecover

Spec == Init /\ [][Next]_vars

(***************************************************************************)
(* The points API                                                          *)
(***************************************************************************)
InitPoints == InitServer(PointsBuilds)

NextPoints ==
    \/ \E h \in PointHeaders : ListPoints(h)
    \/ \E h \in PointHeaders, b \in CreateBodies : CreatePoint(h, b)
    \/ \E h \in PointHeaders, id \in IdParams, b \in UpdateBodies : UpdatePoint(h, id, b)
    \/ \E h \in PointHeaders, id \in IdParams : DeletePoint(h, id)
    \/ Tick
    \/ DbFail
    \/ DbRecover

SpecPoints == InitPoints /\ [][NextPoints]_vars

\* the points API of part_002
InitPoints002 == InitServer(UncaughtBuilds)

SpecPoints002 == InitPoints002 /\ [][NextPoints]_vars

\* the points API of part_002, second revision
InitPoints002b == InitServer(DefaultingBuilds)

SpecPoints002b == InitPoints002b /\ [][NextPoints]_vars

\* the points API of part_004, the build that authenticates it
InitPoints004 == InitServer({B_part004})

SpecPoints004 == InitPoints004 /\ [][NextPoints]_vars

\* the authentication service of part_004
InitAuth004 == InitServer({B_part004})

SpecAuth004 == InitAuth004 /\ [][Next]_vars

(***************************************************************************)
(* The points API of part_004 shared by the two accounts                   *)
(***************************************************************************)
\* the headers of the two accounts, each signed in now
SharedHeaders == { Bearer(signToken([id |-> u.id, email |-> u.email], now)) : u \in users }

\* the point App.addPoint creates, and the edit of its status
SharedCreateBodies ==
    { [Coords(JNum(52), JNum(21)) EXCEPT !.title = JStr("Nowy punkt"),
                                         !.status = JStr("planowany")] }

SharedUpdateBodies ==
    { [EmptyBody EXCEPT !.title = JStr("Nowy punkt"), !.status = JStr("realizacja")] }

NextShared ==
    \/ \E h \in SharedHeaders : ListPoints(h)
    \/ \E h \in SharedHeaders, b \in SharedCreateBodies : CreatePoint(h, b)
    \/ \E h \in SharedHeaders, id \in IdParams, b \in SharedUpdateBodies :
            UpdatePoint(h, id, b)
    \/ \E h \in SharedHeaders, id \in IdParams : DeletePoint(h, id)

SpecShared == InitPoints004 /\ [][NextShared]_vars

(***************************************************************************)
(* The journal: the comment routes of the server.  Their code is not in    *)
(* the repository snapshot (only JournalPanel, their caller, is); they are *)
(* modelled from sections 4.3, 6 and 7 of the specification.               *)
(***************************************************************************)
CommentKinds == {"points", "tunnels"}

CommentRow(id, kind, eid, user, body) ==
    [id |-> id, entity_kind |-> kind, entity_id |-> eid, user_id |-> user.id,
     user_email |-> user.email, body |-> body, created_at |-> now, edited |-> FALSE]

\* the comments of an entity, newest first
CommentsOf(kind, eid) ==
    LET rows == {c \in comments : c.entity_kind = kind /\ c.entity_id = eid}
        n == Cardinality(rows)
    IN  CHOOSE q \in [1..n -> rows] :
            /\ \A a, b \in 1..n : a # b => q[a] # q[b]
            /\ \A a, b \in 1..n : a < b => q[a].id > q[b].id

\* the comment a path /api/{kind}/{eid}/comments/{cid} names, if any
CommentAt(kind, eid, cid) ==
    {c \in comments : c.id = cid /\ c.entity_kind = kind /\ c.entity_id = eid}

CommentOutcome(r, cs, seq) == [resp |-> r, comments |-> cs, commentSeq |-> seq]

CommentRejected(r) == CommentOutcome(r, comments, commentSeq)

CommentListHandler(h, kind, eid) ==
    LET auth == authRequired(h, now) IN
    IF ~auth.pass THEN CommentRejected(auth.resp)
    ELSE IF ~dbUp THEN CommentRejected(Reply(500, ErrBody("DB error")))
    ELSE CommentRejected(Reply(200, [kind |-> "rows", rows |-> CommentsOf(kind, eid)]))

CommentCreateHandler(h, kind, eid, b) ==
    LET auth == authRequired(h, now)
        body == Trim(JsString(JsOr(b.body, JStr(""))))
        row == CommentRow(commentSeq, kind, eid, auth.user, body)
    IN  IF ~auth.pass THEN CommentRejected(auth.resp)
        ELSE IF body = "" THEN CommentRejected(Reply(400, ErrBody("Bad request")))
        ELSE IF ~dbUp THEN CommentRejected(Reply(500, ErrBody("DB error")))
        ELSE CommentOutcome(Reply(200, row), comments \cup {row}, commentSeq + 1)

CommentUpdateHandler(h, kind, eid, cid, b) ==
    LET auth == authRequired(h, now)
        hit == CommentAt(kind, eid, cid)
    IN  IF ~auth.pass THEN CommentRejected(auth.resp)
        ELSE IF ~dbUp THEN CommentRejected(Reply(500, ErrBody("DB error")))
        ELSE IF hit = {} THEN CommentRejected(Reply(404, ErrBody("Not found")))
        ELSE LET old == CHOOSE c \in hit : TRUE
                 new == [old EXCEPT !.body = JsString(JsOr(b.body, JStr(""))),
                                    !.edited = TRUE]
             IN  IF old.user_id # auth.user.id
                 THEN CommentRejected(Reply(403, ErrBody("Forbidden")))
                 ELSE CommentOutcome(Reply(200, new), (comments \ {old}) \cup {new},
                                     commentSeq)

CommentDeleteHandler(h, kind, eid, cid) ==
    LET auth == authRequired(h, now)
        hit == CommentAt(kind, eid, cid)
    IN  IF ~auth.pass THEN CommentRejected(auth.resp)
        ELSE IF ~dbUp THEN CommentRejected(Reply(500, ErrBody("DB error")))
        ELSE IF hit = {} THEN CommentRejected(Reply(404, ErrBody("Not found")))
        ELSE LET old == CHOOSE c \in hit : TRUE
             IN  IF old.user_id # auth.user.id
                 THEN CommentRejected(Reply(403, ErrBody("Forbidden")))
                 ELSE CommentOutcome(Reply(200, [kind |-> "ok", ok |-> TRUE]),
                                     comments \ {old}, commentSeq)

\* the handler of a comment request
CommentHandler(r) ==
    CASE r.op = "c_list" -> CommentListHandler(r.hdr, r.kind, r.eid)
      [] r.op = "c_create" -> CommentCreateHandler(r.hdr, r.kind, r.eid, r.body)
      [] r.op = "c_update" -> CommentUpdateHandler(r.hdr, r.kind, r.eid, r.cid, r.body)
      [] r.op = "c_delete" -> CommentDeleteHandler(r.hdr, r.kind, r.eid, r.cid)

CommentBody(text) == [EmptyBody EXCEPT !.body = JStr(text)]

\* the server answers a comment request
Serve(r, out) ==
    /\ req' = r
    /\ resp' = out.resp
    /\ queries' = <<>>
    /\ comments' = out.comments
    /\ commentSeq' = out.commentSeq
    /\ UNCHANGED <<build, serving, now, dbUp, users, userSeq, points, pointSeq, everIds, issued>>
    /\ UNCHANGED <<tunnelVars, appVars, prov>>

\* a comment request of another user agent, answered at once
ApiUser == [id |-> 2, email |-> "b@x"]

\* a comment body that also names the first account as its author
SpoofBody(text) ==
    [CommentBody(text) EXCEPT !.user_id = JNum(1), !.user_email = JStr("a@x")]

ApiHeaders == { NoHeader, Bearer(signToken(ApiUser, now)) }

\* what the second account sends: every request with its token, and a create
\* with no token
ApiRequests ==
    { CommentRequest("c_list", Bearer(signToken(ApiUser, now)), "points", 1, 0, EmptyBody) }
    \cup { CommentRequest("c_create", h, "points", 1, 0, b) :
             h \in ApiHeaders, b \in {CommentBody(" "), SpoofBody("x")} }
    \cup { CommentRequest("c_update", Bearer(signToken(ApiUser, now)), "points", 1, c,
                          CommentBody("y")) : c \in 1..MaxCommentId }
    \cup { CommentRequest("c_delete", Bearer(signToken(ApiUser, now)), "points", 1, c,
                          EmptyBody) : c \in 1..MaxCommentId }

ApiComment(r) ==
    /\ r.op = "c_create" => commentSeq <= MaxCommentId
    /\ Serve(r, CommentHandler(r))
    /\ UNCHANGED <<cUser, cToken, calls>>
    /\ UNCHANGED panelVars

(***************************************************************************)
(* The journal: JournalPanel of the client                                 *)
(***************************************************************************)
\* a step of the client alone: no exchange with the server
NoExchange ==
    /\ req' = NoReq
    /\ resp' = NoResp
    /\ queries' = <<>>
    /\ UNCHANGED <<build, serving, now, dbUp, users, userSeq, points, pointSeq, everIds, issued>>
    /\ UNCHANGED <<tunnelVars, appVars, prov>>

\* authFetch: the token in localStorage, if any, as a bearer token
authFetch == IF cToken.kind = "empty" THEN NoHeader ELSE Bearer(cToken)

\* a fetch of the panel: the request, what the continuation captured, and the
\* response once the server has answered
Call(fn, r, cap) == [fn |-> fn, req |-> r, cap |-> cap, state |-> "sent", reply |-> NoResp]

visible == jEntity # 0

\* String(c.user_id) === String(user?.id)
isMine_Everyone(c) == TRUE

isMine(c) == c.user_id = cUser.id

\* readJsonOrThrow: the error thrown when the response is not ok
ThrownMessage(r) == r.body.error

RemoveAt(q, k) == SubSeq(q, 1, k - 1) \o SubSeq(q, k + 1, Len(q))

\* load(), up to its await
load(kind, eid) ==
    IF eid = 0
    THEN UNCHANGED <<loading, jErr, calls>>
    ELSE /\ Len(calls) < MaxInflight
         /\ loading' = TRUE
         /\ jErr' = ""
         /\ calls' = Append(calls,
                Call("load", CommentRequest("c_list", authFetch, kind, eid, 0, EmptyBody), 0))

\* App selects another entity, or none: the effect on [visible, kind, entityId]
\* runs load() when the panel is visible
Selections == {<<"points", 1>>, <<"tunnels", 0>>}

\* a click on a list entry, a marker or a polyline, and the end of addPoint /
\* onDrawCreated: the id of one kind is set and the id of the other kind is
\* set to null in the same handler
setSelected_KeepOther(kind, id) ==
    IF kind = "points"
    THEN selectedPointId' = id /\ UNCHANGED selectedTunnelId
    ELSE selectedTunnelId' = id /\ UNCHANGED selectedPointId

setSelected(kind, id) ==
    /\ selectedPointId' = IF kind = "points" THEN id ELSE 0
    /\ selectedTunnelId' = IF kind = "tunnels" THEN id ELSE 0

Select(sel) ==
    /\ sel # <<jKind, jEntity>>
    /\ jKind' = sel[1]
    /\ jEntity' = sel[2]
    /\ setSelected(sel[1], sel[2])
    /\ load(sel[1], sel[2])
    /\ UNCHANGED <<items, draft, editingId, editingBody, busyActionId>>
    /\ UNCHANGED <<cUser, cToken, comments, commentSeq>>
    /\ NoExchange

\* the button "Odswiez dziennik"
Refresh ==
    /\ visible
    /\ ~loading
    /\ load(jKind, jEntity)
    /\ UNCHANGED <<jKind, jEntity, selectedPointId, selectedTunnelId, items, draft, editingId, editingBody, busyActionId>>
    /\ UNCHANGED <<cUser, cToken, comments, commentSeq>>
    /\ NoExchange

DraftTexts == {"", " ", " x "}

TypeDraft(t) ==
    /\ visible
    /\ t # draft
    /\ draft' = t
    /\ UNCHANGED <<jKind, jEntity, selectedPointId, selectedTunnelId, items, editingId, editingBody, busyActionId, jErr,
                   loading, calls>>
    /\ UNCHANGED <<cUser, cToken, comments, commentSeq>>
    /\ NoExchange

\* addComment() that sends the draft as typed, blank or not
addComment_Blank ==
    /\ visible
    /\ busyActionId # -1
    /\ jEntity # 0
    /\ Len(calls) < MaxInflight
    /\ busyActionId' = -1
    /\ jErr' = ""
    /\ calls' = Append(calls,
           Call("add", CommentRequest("c_create", authFetch, jKind, jEntity, 0,
                                      CommentBody(draft)), 0))
    /\ UNCHANGED <<jKind, jEntity, selectedPointId, selectedTunnelId, items, draft, editingId, editingBody, loading>>
    /\ UNCHANGED <<cUser, cToken, comments, commentSeq>>
    /\ NoExchange

\* the button "Dodaj wpis" and addComment(), up to its await
addComment ==
    LET body == Trim(draft) IN
    /\ visible
    /\ busyActionId # -1
    /\ Trim(draft) # ""
    /\ jEntity # 0
    /\ body # ""
    /\ Len(calls) < MaxInflight
    /\ busyActionId' = -1
    /\ jErr' = ""
    /\ calls' = Append(calls,
           Call("add", CommentRequest("c_create", authFetch, jKind, jEntity, 0,
                                      CommentBody(body)), 0))
    /\ UNCHANGED <<jKind, jEntity, selectedPointId, selectedTunnelId, items, draft, editingId, editingBody, loading>>
    /\ UNCHANGED <<cUser, cToken, comments, commentSeq>>
    /\ NoExchange

\* the button "Edytuj", shown on an entry of the signed-in user
StartEdit(k) ==
    /\ visible
    /\ k \in DOMAIN items
    /\ isMine(items[k])
    /\ editingId # items[k].id
    /\ editingId' = items[k].id
    /\ editingBody' = items[k].body
    /\ UNCHANGED <<jKind, jEntity, selectedPointId, selectedTunnelId, items, draft, busyActionId, jErr, loading, calls>>
    /\ UNCHANGED <<cUser, cToken, comments, commentSeq>>
    /\ NoExchange

EditTexts == {" y "}

\* the textarea of the entry being edited
TypeEdit(k, t) ==
    /\ visible
    /\ k \in DOMAIN items
    /\ editingId = items[k].id
    /\ t # editingBody
    /\ editingBody' = t
    /\ UNCHANGED <<jKind, jEntity, selectedPointId, selectedTunnelId, items, draft, editingId, busyActionId, jErr, loading,
                   calls>>
    /\ UNCHANGED <<cUser, cToken, comments, commentSeq>>
    /\ NoExchange

\* the button "Anuluj"
CancelEdit(k) ==
    /\ visible
    /\ k \in DOMAIN items
    /\ editingId = items[k].id
    /\ editingId' = 0
    /\ editingBody' = ""
    /\ UNCHANGED <<jKind, jEntity, selectedPointId, selectedTunnelId, items, draft, busyActionId, jErr, loading, calls>>
    /\ UNCHANGED <<cUser, cToken, comments, commentSeq>>
    /\ NoExchange

\* the button "Zapisz" and saveEdit(commentId), up to its await
saveEdit(k) ==
    LET body == Trim(editingBody) IN
    /\ visible
    /\ k \in DOMAIN items
    /\ editingId = items[k].id
    /\ busyActionId # items[k].id
    /\ Trim(editingBody) # ""
    /\ jEntity # 0
    /\ body # ""
    /\ Len(calls) < MaxInflight
    /\ busyActionId' = items[k].id
    /\ jErr' = ""
    /\ calls' = Append(calls,
           Call("save", CommentRequest("c_update", authFetch, jKind, jEntity,
                                       items[k].id, CommentBody(body)), 0))
    /\ UNCHANGED <<jKind, jEntity, selectedPointId, selectedTunnelId, items, draft, editingId, editingBody, loading>>
    /\ UNCHANGED <<cUser, cToken, comments, commentSeq>>
    /\ NoExchange

\* the button "Usun", shown on an entry of the signed-in user, and
\* removeComment(commentId), confirmed, up to its await; the continuation
\* reads the editingId of the render the click happened in
removeComment(k) ==
    /\ visible
    /\ k \in DOMAIN items
    /\ isMine(items[k])
    /\ busyActionId # items[k].id
    /\ jEntity # 0
    /\ Len(calls) < MaxInflight
    /\ busyActionId' = items[k].id
    /\ jErr' = ""
    /\ calls' = Append(calls,
           Call("remove", CommentRequest("c_delete", authFetch, jKind, jEntity,
                                         items[k].id, EmptyBody), editingId))
    /\ UNCHANGED <<jKind, jEntity, selectedPointId, selectedTunnelId, items, draft, editingId, editingBody, loading>>
    /\ UNCHANGED <<cUser, cToken, comments, commentSeq>>
    /\ NoExchange

\* the server answers a fetch of the panel
ServeCall(k) ==
    /\ k \in DOMAIN calls
    /\ calls[k].state = "sent"
    /\ calls[k].req.op = "c_create" => commentSeq <= MaxCommentId
    /\ LET out == CommentHandler(calls[k].req) IN
        /\ Serve(calls[k].req, out)
        /\ calls' = [calls EXCEPT ![k].state = "done", ![k].reply = out.resp]
    /\ UNCHANGED <<cUser, cToken>>
    /\ UNCHANGED panelVars

\* setItems(Array.isArray(data) ? data : []) showing only the user's entries
Loaded_OwnOnly(r) == SelectSeq(r.body.rows, LAMBDA c : c.user_id = cUser.id)

Loaded(r) == IF r.body.kind = "rows" THEN r.body.rows ELSE <<>>

\* setItems(prev => prev.map(x => String(x.id) === String(updated.id) ? updated : x))
Replaced(prev, updated) ==
    [n \in DOMAIN prev |-> IF prev[n].id = updated.id THEN updated ELSE prev[n]]

\* setItems(prev => prev.filter(x => String(x.id) !== String(commentId)))
Filtered(prev, cid) == SelectSeq(prev, LAMBDA c : c.id # cid)

\* the rest of load() once the fetch has returned
loadReturn(c) ==
    /\ IF c.reply.status = 200
       THEN items' = Loaded(c.reply) /\ UNCHANGED jErr
       ELSE jErr' = ThrownMessage(c.reply) /\ UNCHANGED items
    /\ loading' = FALSE
    /\ UNCHANGED <<draft, editingId, editingBody, busyActionId>>

\* the rest of addComment()
addReturn(c) ==
    /\ IF c.reply.status = 200
       THEN draft' = "" /\ items' = <<c.reply.body>> \o items /\ UNCHANGED jErr
       ELSE jErr' = ThrownMessage(c.reply) /\ UNCHANGED <<draft, items>>
    /\ busyActionId' = 0
    /\ UNCHANGED <<editingId, editingBody, loading>>

\* the rest of saveEdit()
saveReturn(c) ==
    /\ IF c.reply.status = 200
       THEN /\ items' = Replaced(items, c.reply.body)
            /\ editingId' = 0
            /\ editingBody' = ""
            /\ UNCHANGED jErr
       ELSE jErr' = ThrownMessage(c.reply) /\ UNCHANGED <<items, editingId, editingBody>>
    /\ busyActionId' = 0
    /\ UNCHANGED <<draft, loading>>

\* the rest of removeComment()
removeReturn(c) ==
    /\ IF c.reply.status = 200
       THEN /\ items' = Filtered(items, c.req.cid)
            /\ IF c.cap = c.req.cid
               THEN editingId' = 0 /\ editingBody' = ""
               ELSE UNCHANGED <<editingId, editingBody>>
            /\ UNCHANGED jErr
       ELSE jErr' = ThrownMessage(c.reply) /\ UNCHANGED <<items, editingId, editingBody>>
    /\ busyActionId' = 0
    /\ UNCHANGED <<draft, loading>>

\* a fetch returns to the function that awaits it
ReturnCall(k) ==
    /\ k \in DOMAIN calls
    /\ calls[k].state = "done"
    /\ CASE calls[k].fn = "load" -> loadReturn(calls[k])
         [] calls[k].fn = "add" -> addReturn(calls[k])
         [] calls[k].fn = "save" -> saveReturn(calls[k])
         [] calls[k].fn = "remove" -> removeReturn(calls[k])
    /\ calls' = RemoveAt(calls, k)
    /\ UNCHANGED <<jKind, jEntity, selectedPointId, selectedTunnelId, cUser, cToken, comments, commentSeq>>
    /\ NoExchange

\* part_004 is running, the first account is signed in on the client, and
\* the point and the tunnel the journal is opened on exist
InitJournal ==
    LET u == [id |-> 1, email |-> "a@x"] IN
    /\ build = B_part004
    /\ serving = TRUE
    /\ now = 0
    /\ dbUp = TRUE
    /\ users = InitUsers
    /\ userSeq = 3
    /\ points = {PointRow(1, JStr("Nowy punkt"), JStr(""), JStr(""), JStr(""),
                          JStr("planowany"), Fin(52), Fin(21))}
    /\ pointSeq = 2
    /\ everIds = {1}
    /\ issued = {Issue(signToken(u, 0), u, "login")}
    /\ req = NoReq
    /\ resp = NoResp
    /\ queries = <<>>
    /\ comments = {}
    /\ commentSeq = 1
    /\ cUser = u
    /\ cToken = signToken(u, 0)
    /\ jKind = "tunnels"
    /\ jEntity = 0
    /\ selectedPointId = 0
    /\ selectedTunnelId = 0
    /\ items = <<>>
    /\ draft = ""
    /\ editingId = 0
    /\ editingBody = ""
    /\ busyActionId = 0
    /\ jErr = ""
    /\ loading = FALSE
    /\ calls = <<>>
    /\ tunnels = {}
    /\ tunnelSeq = 1
    /\ mode = "app"
    /\ cPoints = <<RowJson(CHOOSE r \in points : TRUE)>>
    /\ cTunnels = <<>>
    /\ authNotice = ""
    /\ apiError = ""
    /\ prov = {[id |-> 1, creator |-> 1, editor |-> 0]}

NextJournal ==
    \/ \E r \in ApiRequests : ApiComment(r)
    \/ \E sel \in Selections : Select(sel)
    \/ Refresh
    \/ \E t \in DraftTexts : TypeDraft(t)
    \/ addComment
    \/ \E k \in 1..MaxCommentId : StartEdit(k)
    \/ \E k \in 1..MaxCommentId, t \in EditTexts : TypeEdit(k, t)
    \/ \E k \in 1..MaxCommentId : CancelEdit(k)
    \/ \E k \in 1..MaxCommentId : saveEdit(k)
    \/ \E k \in 1..MaxCommentId : removeComment(k)
    \/ \E k \in 1..MaxInflight : ServeCall(k)
    \/ \E k \in 1..MaxInflight : ReturnCall(k)

SpecJournal == InitJournal /\ [][NextJournal]_vars

(***************************************************************************)
(* The tunnels routes of the server.  Their code is not in the repository  *)
(* snapshot (only App, their caller, is); they are modelled from sections  *)
(* 3, 4.2 and 6 of the specification.                                      *)
(***************************************************************************)
\* a JSON array
JArr(seq) == [t |-> "array", s |-> "", n |-> 0, a |-> seq]

\* a non-empty array of vertices whose lat and lng are numbers
ValidPath(v) ==
    /\ v.t = "array"
    /\ Len(v.a) >= 1
    /\ \A i \in DOMAIN v.a : v.a[i].lat.t = "number" /\ v.a[i].lng.t = "number"

TunnelRow(id, name, director, winner, note, status, path) ==
    [kind |-> "tunnel", id |-> id, name |-> name, director |-> director,
     winner |-> winner, note |-> note, status |-> status, path |-> path]

\* the tunnels, newest first
TunnelsNewestFirst ==
    LET n == Cardinality(tunnels)
    IN  CHOOSE q \in [1..n -> tunnels] :
            /\ \A a, b \in 1..n : a # b => q[a] # q[b]
            /\ \A a, b \in 1..n : a < b => q[a].id > q[b].id

TunnelOutcome(r, ts, seq) == [resp |-> r, tunnels |-> ts, tunnelSeq |-> seq]

TunnelListHandler(h) ==
    LET auth == authRequired(h, now) IN
    IF ~auth.pass THEN TunnelOutcome(auth.resp, tunnels, tunnelSeq)
    ELSE IF ~dbUp THEN TunnelOutcome(Reply(500, ErrBody("DB error")), tunnels, tunnelSeq)
    ELSE TunnelOutcome(Reply(200, [kind |-> "rows", rows |-> TunnelsNewestFirst]),
                       tunnels, tunnelSeq)

TunnelCreateHandler(h, b) ==
    LET auth == authRequired(h, now)
        row == TunnelRow(tunnelSeq, TextOr(b.name, "Nowy tunel"), TextOr(b.director, ""),
                         TextOr(b.winner, ""), TextOr(b.note, ""),
                         TextOr(b.status, "planowany"), b.path.a)
    IN  IF ~auth.pass THEN TunnelOutcome(auth.resp, tunnels, tunnelSeq)
        ELSE IF ~ValidPath(b.path)
        THEN TunnelOutcome(Reply(400, ErrBody("Bad request")), tunnels, tunnelSeq)
        ELSE IF ~dbUp
        THEN TunnelOutcome(Reply(500, ErrBody("DB error")), tunnels, tunnelSeq)
        ELSE TunnelOutcome(Reply(200, row), tunnels \cup {row}, tunnelSeq + 1)

TunnelsById(id) == {t \in tunnels : NumToStr(t.id) = id}

\* update(id, fields) -> entity: NotFound when the id is absent; metadata and
\* the whole path are replaced
TunnelUpdateHandler(h, id, b) ==
    LET auth == authRequired(h, now)
        hit == TunnelsById(id)
    IN  IF ~auth.pass THEN TunnelOutcome(auth.resp, tunnels, tunnelSeq)
        ELSE IF ~ValidPath(b.path)
        THEN TunnelOutcome(Reply(400, ErrBody("Bad request")), tunnels, tunnelSeq)
        ELSE IF ~dbUp
        THEN TunnelOutcome(Reply(500, ErrBody("DB error")), tunnels, tunnelSeq)
        ELSE IF hit = {}
        THEN TunnelOutcome(Reply(404, ErrBody("Not found")), tunnels, tunnelSeq)
        ELSE LET old == CHOOSE t \in hit : TRUE
                 row == TunnelRow(old.id, TextOr(b.name, ""), TextOr(b.director, ""),
                                  TextOr(b.winner, ""), TextOr(b.note, ""),
                                  TextOr(b.status, "planowany"), b.path.a)
             IN  TunnelOutcome(Reply(200, row), (tunnels \ hit) \cup {row}, tunnelSeq)

\* delete(id) -> ack: NotFound when the id is absent
TunnelDeleteHandler(h, id) ==
    LET auth == authRequired(h, now)
        hit == TunnelsById(id)
    IN  IF ~auth.pass THEN TunnelOutcome(auth.resp, tunnels, tunnelSeq)
        ELSE IF ~dbUp
        THEN TunnelOutcome(Reply(500, ErrBody("DB error")), tunnels, tunnelSeq)
        ELSE IF hit = {}
        THEN TunnelOutcome(Reply(404, ErrBody("Not found")), tunnels, tunnelSeq)
        ELSE TunnelOutcome(Reply(200, [kind |-> "ok", ok |-> TRUE,
                                       id |-> (CHOOSE t \in hit : TRUE).id]),
                           tunnels \ hit, tunnelSeq)

(***************************************************************************)
(* App of the client: sign-in, the two lists, adding a point, drawing a    *)
(* tunnel, and the journal of the selected entity                          *)
(***************************************************************************)
JournalFns == {"load", "add", "save", "remove"}

AppFns == {"boot", "login", "loadPoints", "loadTunnels", "addPoint", "drawCreated",
           "savePoint", "deletePoint", "saveTunnelMeta", "deleteTunnel", "peer",
           "drawEdited", "drawDeleted"}

\* the fetches of JournalPanel are dropped when App unmounts it
DropJournal(q) == SelectSeq(q, LAMBDA c : c.fn \in AppFns)

\* loginRequest(login, password): JSON.stringify({ email: login, login, password })
loginRequest(login, password) ==
    Request("login", NoHeader,
            [EmptyBody EXCEPT !.email = JStr(login), !.login = JStr(login),
                              !.password = JStr(password)], "")

Credentials == { <<"a@x", "pwd-a1">>, <<"b@x", "pwd-b2">>, <<"a@x", "wrong1">> }

\* onLoginSubmit, up to its await
onLoginSubmit(cr) ==
    /\ mode = "login"
    /\ calls = <<>>
    /\ calls' = <<Call("login", loginRequest(cr[1], cr[2]), 0)>>
    /\ UNCHANGED <<cUser, cToken, comments, commentSeq>>
    /\ UNCHANGED panelVars
    /\ NoExchange

\* logout(reason): what it sets in App, and JournalPanel unmounted with it
logout(reason) ==
    /\ cToken' = NoToken
    /\ cUser' = NoUser
    /\ mode' = "login"
    /\ cPoints' = <<>>
    /\ cTunnels' = <<>>
    /\ authNotice' = IF reason = "expired"
                     THEN "Sesja wygasla - zaloguj sie ponownie."
                     ELSE ""
    /\ jKind' = "tunnels"
    /\ jEntity' = 0
    /\ selectedPointId' = 0
    /\ selectedTunnelId' = 0
    /\ items' = <<>>
    /\ draft' = ""
    /\ editingId' = 0
    /\ editingBody' = ""
    /\ busyActionId' = 0
    /\ jErr' = ""
    /\ loading' = FALSE

\* the button "Wyloguj"
Logout ==
    /\ mode = "app"
    /\ logout("button")
    /\ calls' = DropJournal(calls)
    /\ UNCHANGED <<apiError, comments, commentSeq>>
    /\ req' = NoReq
    /\ resp' = NoResp
    /\ queries' = <<>>
    /\ UNCHANGED <<build, serving, now, dbUp, users, userSeq, points, pointSeq, everIds, issued>>
    /\ UNCHANGED <<tunnelVars, prov>>

\* toPath that drops the last vertex
toPath_DropLast(latlngs) ==
    LET arr == IF latlngs.t = "array" THEN latlngs.a ELSE <<>>
    IN  [i \in 1..(Len(arr) - 1) |->
            [lat |-> NumJson(JsNumber(arr[i].lat)), lng |-> NumJson(JsNumber(arr[i].lng))]]

\* toPath, and JSON.stringify of each coordinate
toPath(latlngs) ==
    LET arr == IF latlngs.t = "array" THEN latlngs.a ELSE <<>>
    IN  [i \in 1..Len(arr) |->
            [lat |-> NumJson(JsNumber(arr[i].lat)), lng |-> NumJson(JsNumber(arr[i].lng))]]

LatLng(lat, lng) == [lat |-> JNum(lat), lng |-> JNum(lng)]

\* what layer.getLatLngs() returns for the polylines drawn
DrawnLayers ==
    { JArr(<<LatLng(52, 21), LatLng(53, 22)>>),
      JArr(<<LatLng(53, 22), LatLng(52, 21), LatLng(52, 21)>>) }

\* the user works on the map once the lists have loaded, one gesture at a time
MapReady == mode = "app" /\ calls = <<>>

\* onDrawCreated, up to its await; the call keeps what was drawn
onDrawCreated(latlngs) ==
    /\ MapReady
    /\ apiError' = ""
    /\ calls' = Append(calls,
           Call("drawCreated",
                Request("t_create", authFetch,
                        [EmptyBody EXCEPT !.name = JStr("Nowy tunel"),
                                          !.director = JStr(""), !.winner = JStr(""),
                                          !.status = JStr("planowany"), !.note = JStr(""),
                                          !.path = JArr(toPath(latlngs))], ""),
                latlngs))
    /\ UNCHANGED <<mode, cPoints, cTunnels, authNotice>>
    /\ UNCHANGED <<cUser, cToken, comments, commentSeq>>
    /\ UNCHANGED panelVars
    /\ req' = NoReq
    /\ resp' = NoResp
    /\ queries' = <<>>
    /\ UNCHANGED <<build, serving, now, dbUp, users, userSeq, points, pointSeq, everIds, issued>>
    /\ UNCHANGED <<tunnelVars, prov>>

\* addPoint, up to its await
addPoint(latlng) ==
    /\ MapReady
    /\ apiError' = ""
    /\ calls' = Append(calls,
           Call("addPoint",
                Request("create", authFetch,
                        [EmptyBody EXCEPT !.title = JStr("Nowy punkt"),
                                          !.director = JStr(""), !.winner = JStr(""),
                                          !.note = JStr(""), !.status = JStr("planowany"),
                                          !.lat = latlng.lat, !.lng = latlng.lng], ""),
                0))
    /\ UNCHANGED <<mode, cPoints, cTunnels, authNotice>>
    /\ UNCHANGED <<cUser, cToken, comments, commentSeq>>
    /\ UNCHANGED panelVars
    /\ req' = NoReq
    /\ resp' = NoResp
    /\ queries' = <<>>
    /\ UNCHANGED <<build, serving, now, dbUp, users, userSeq, points, pointSeq, everIds, issued>>
    /\ UNCHANGED <<tunnelVars, prov>>

\* a click on a point or a tunnel of the lists: JournalPanel's effect loads
\* its journal
SelectCached(kind, id) ==
    /\ MapReady
    /\ \E n \in DOMAIN (IF kind = "points" THEN cPoints ELSE cTunnels) :
          (IF kind = "points" THEN cPoints ELSE cTunnels)[n].id = id
    /\ Select(<<kind, id>>)

\* the entry of a cache with this id, if any
Cached(cache, id) == {cache[n] : n \in {m \in DOMAIN cache : cache[m].id = id}}

\* selectedPoint / selectedTunnel: the cached entry with the selected id
selectedPoint == Cached(cPoints, selectedPointId)

selectedTunnel == Cached(cTunnels, selectedTunnelId)

Busy(fn) == \E k \in DOMAIN calls : calls[k].fn = fn

\* what pointForm / tunnelForm hold when a save button is pressed
Form(text, status) ==
    [title |-> JStr(text), director |-> JStr(text), winner |-> JStr(text),
     note |-> JStr(text), status |-> JStr(status)]

\* an App function starts a fetch and leaves the rest of the state alone
StartCall(c) ==
    /\ MapReady
    /\ apiError' = ""
    /\ calls' = Append(calls, c)
    /\ UNCHANGED <<mode, cPoints, cTunnels, authNotice>>
    /\ UNCHANGED <<cUser, cToken, comments, commentSeq>>
    /\ UNCHANGED panelVars
    /\ req' = NoReq
    /\ resp' = NoResp
    /\ queries' = <<>>
    /\ UNCHANGED <<build, serving, now, dbUp, users, userSeq, points, pointSeq, everIds, issued>>
    /\ UNCHANGED <<tunnelVars, prov>>

\* savePoint, up to its await
savePoint(f) ==
    /\ selectedPoint # {}
    /\ ~Busy("savePoint")
    /\ StartCall(Call("savePoint",
            Request("update", authFetch,
                    [EmptyBody EXCEPT !.title = f.title, !.director = f.director,
                                      !.winner = f.winner, !.note = f.note,
                                      !.status = f.status],
                    NumToStr(selectedPointId)),
            selectedPointId))

\* deletePoint with the confirmation accepted, up to its await
deletePoint ==
    /\ selectedPoint # {}
    /\ ~Busy("deletePoint")
    /\ StartCall(Call("deletePoint",
            Request("delete", authFetch, EmptyBody, NumToStr(selectedPointId)),
            selectedPointId))

\* saveTunnelMeta, up to its await
saveTunnelMeta(f) ==
    /\ selectedTunnel # {}
    /\ ~Busy("saveTunnelMeta")
    /\ StartCall(Call("saveTunnelMeta",
            Request("t_update", authFetch,
                    [EmptyBody EXCEPT !.name = f.title, !.director = f.director,
                                      !.winner = f.winner, !.status = f.status,
                                      !.note = f.note,
                                      !.path = JArr((CHOOSE t \in selectedTunnel : TRUE).path)],
                    NumToStr(selectedTunnelId)),
            selectedTunnelId))

\* deleteTunnel(selectedTunnel.id) with the confirmation accepted, up to its
\* await; the closure keeps the selectedTunnelId of the render that made it
deleteTunnel ==
    /\ selectedTunnel # {}
    /\ ~Busy("deleteTunnel")
    /\ StartCall(Call("deleteTunnel",
            Request("t_delete", authFetch, EmptyBody, NumToStr(selectedTunnelId)),
            [id |-> selectedTunnelId, selectedTunnelId |-> selectedTunnelId]))

\* x || dflt for a text of the cache
OrText(x, dflt) == IF x = "" THEN dflt ELSE x

\* the PUT onDrawEdited sends for update u: the metadata of the tunnel as the
\* closure's tunnels holds it, and the new path
EditRequest(snap, u) ==
    LET t == CHOOSE x \in Cached(snap, u.id) : TRUE IN
    Request("t_update", authFetch,
            [EmptyBody EXCEPT !.name = JStr(OrText(t.name, "Tunel")),
                              !.director = JStr(OrText(t.director, "")),
                              !.winner = JStr(OrText(t.winner, "")),
                              !.status = JStr(OrText(t.status, "planowany")),
                              !.note = JStr(OrText(t.note, "")),
                              !.path = JArr(u.path)],
            NumToStr(u.id))

\* the updates whose tunnel the closure's tunnels holds; the loop skips the
\* others
Findable(updates, snap) == SelectSeq(updates, LAMBDA u : Cached(snap, u.id) # {})

\* onDrawEdited, up to its first await: the edited layers are polylines of
\* cached tunnels
onDrawEdited(updates) ==
    /\ updates # <<>>
    /\ Findable(updates, cTunnels) = updates
    /\ StartCall(Call("drawEdited", EditRequest(cTunnels, updates[1]),
                      [rest |-> Tail(updates), snap |-> cTunnels]))

\* onDrawDeleted, up to its first await, or to its return when the
\* confirmation is declined
onDrawDeleted(ids, ok) ==
    /\ ids # <<>>
    /\ \A n \in DOMAIN ids : Cached(cTunnels, ids[n]) # {}
    /\ StartCall(IF ok
                 THEN Call("drawDeleted",
                           Request("t_delete", authFetch, EmptyBody, NumToStr(ids[1])),
                           [ids |-> ids, rest |-> Tail(ids),
                            selectedTunnelId |-> selectedTunnelId])
                 ELSE Call("loadTunnels", Request("t_list", authFetch, EmptyBody, ""), 0))

\* the button that clears the selection
Deselect ==
    /\ MapReady
    /\ <<selectedPointId, selectedTunnelId>> # <<0, 0>>
    /\ Select(<<"tunnels", 0>>)

\* the server answers a fetch of App
ServeApp(k) ==
    /\ k \in DOMAIN calls
    /\ calls[k].state = "sent"
    /\ calls[k].fn \in AppFns
    /\ LET r == calls[k].req IN
       /\ req' = r
       /\ CASE r.op = "login" ->
                 LET out == LoginHandler(r.body)
                     newIssued == IF out.branch = "ok"
                                  THEN issued \cup {Issue(out.resp.body.token, out.user, "login")}
                                  ELSE issued
                 IN  /\ Cardinality(newIssued) <= MaxTokens
                     /\ resp' = out.resp
                     /\ queries' = out.queries
                     /\ issued' = newIssued
                     /\ UNCHANGED <<build, serving, now, dbUp, users, userSeq, points, pointSeq,
                                    everIds, prov, tunnels, tunnelSeq>>
            [] r.op = "me" ->
                 /\ resp' = MeHandler(r.hdr)
                 /\ queries' = <<>>
                 /\ UNCHANGED <<build, serving, now, dbUp, users, userSeq, points, pointSeq,
                                everIds, issued, prov, tunnels, tunnelSeq>>
            [] r.op = "list" ->
                 /\ \E order \in ListOrders : ApplyStore(ListHandler(r.hdr, order))
                 /\ UNCHANGED tunnelVars
            [] r.op = "create" ->
                 /\ pointSeq <= MaxPointId
                 /\ ApplyStore(CreateHandler(r.hdr, r.body))
                 /\ UNCHANGED tunnelVars
            [] r.op = "t_list" ->
                 /\ resp' = TunnelListHandler(r.hdr).resp
                 /\ queries' = <<>>
                 /\ UNCHANGED <<build, serving, now, dbUp, users, userSeq, points, pointSeq,
                                everIds, issued, prov, tunnels, tunnelSeq>>
            [] r.op = "update" ->
                 /\ ApplyStore(UpdateHandler(r.hdr, r.id, r.body))
                 /\ UNCHANGED tunnelVars
            [] r.op = "delete" ->
                 /\ ApplyStore(DeleteHandler(r.hdr, r.id))
                 /\ UNCHANGED tunnelVars
            [] r.op \in {"t_update", "t_delete"} ->
                 LET out == IF r.op = "t_update"
                            THEN TunnelUpdateHandler(r.hdr, r.id, r.body)
                            ELSE TunnelDeleteHandler(r.hdr, r.id)
                 IN
                 /\ resp' = out.resp
                 /\ queries' = <<>>
                 /\ tunnels' = out.tunnels
                 /\ tunnelSeq' = out.tunnelSeq
                 /\ UNCHANGED <<build, serving, now, dbUp, users, userSeq, points, pointSeq,
                                everIds, issued, prov>>
            [] r.op = "t_create" ->
                 LET out == TunnelCreateHandler(r.hdr, r.body) IN
                 /\ tunnelSeq <= MaxTunnelId
                 /\ resp' = out.resp
                 /\ queries' = <<>>
                 /\ tunnels' = out.tunnels
                 /\ tunnelSeq' = out.tunnelSeq
                 /\ UNCHANGED <<build, serving, now, dbUp, users, userSeq, points, pointSeq,
                                everIds, issued, prov>>
    /\ calls' = [calls EXCEPT ![k].state = "done", ![k].reply = resp']
    /\ UNCHANGED <<cUser, cToken, comments, commentSeq>>
    /\ UNCHANGED panelVars
    /\ UNCHANGED appVars

\* String(e) of the error readJsonOrThrow throws
ErrorString(r) == "Error: " \o r.body.error

\* the calls loadPoints() and loadTunnels() leave in flight
ListCalls(tok) ==
    << Call("loadPoints", Request("list", Bearer(tok), EmptyBody, ""), 0),
       Call("loadTunnels", Request("t_list", Bearer(tok), EmptyBody, ""), 0) >>

\* the button "Odswiez": loadPoints() and loadTunnels()
Reload ==
    /\ MapReady
    /\ calls' = ListCalls(cToken)
    /\ apiError' = ""
    /\ UNCHANGED <<mode, cPoints, cTunnels, authNotice>>
    /\ UNCHANGED <<cUser, cToken, comments, commentSeq>>
    /\ UNCHANGED panelVars
    /\ req' = NoReq
    /\ resp' = NoResp
    /\ queries' = <<>>
    /\ UNCHANGED <<build, serving, now, dbUp, users, userSeq, points, pointSeq, everIds, issued>>
    /\ UNCHANGED <<tunnelVars, prov>>

\* the rest of onLoginSubmit(), and the effect on [mode] that loads the lists
loginReturn(k) ==
    LET c == calls[k] IN
    IF c.reply.status = 200
    THEN /\ cToken' = c.reply.body.token
         /\ cUser' = c.reply.body.user
         /\ authNotice' = ""
         /\ IF mode # "app"
            THEN /\ mode' = "app"
                 /\ apiError' = ""
                 /\ calls' = RemoveAt(calls, k) \o ListCalls(c.reply.body.token)
            ELSE /\ UNCHANGED <<mode, apiError>>
                 /\ calls' = RemoveAt(calls, k)
         /\ UNCHANGED <<cPoints, cTunnels>>
         /\ UNCHANGED panelVars
    ELSE /\ calls' = RemoveAt(calls, k)
         /\ UNCHANGED <<cToken, cUser, mode, cPoints, cTunnels, authNotice, apiError>>
         /\ UNCHANGED panelVars

\* boot(), the effect App runs once when it mounts, up to its await: with no
\* token in localStorage it shows the login screen at once
boot ==
    /\ mode = "checking"
    /\ calls = <<>>
    /\ IF cToken = NoToken
       THEN /\ mode' = "login"
            /\ UNCHANGED calls
       ELSE /\ calls' = <<Call("boot", Request("me", Bearer(cToken), EmptyBody, ""), 0)>>
            /\ UNCHANGED mode
    /\ UNCHANGED <<cPoints, cTunnels, authNotice, apiError>>
    /\ UNCHANGED <<cUser, cToken, comments, commentSeq>>
    /\ UNCHANGED panelVars
    /\ req' = NoReq
    /\ resp' = NoResp
    /\ queries' = <<>>
    /\ UNCHANGED <<build, serving, now, dbUp, users, userSeq, points, pointSeq, everIds, issued>>
    /\ UNCHANGED <<tunnelVars, prov>>

\* a boot() that shows the login screen on a failed /me but keeps the token
bootReturn_KeepToken(k) ==
    LET c == calls[k] IN
    IF c.reply.status = 200
    THEN /\ cUser' = c.reply.body.user
         /\ mode' = "app"
         /\ apiError' = ""
         /\ calls' = RemoveAt(calls, k) \o ListCalls(cToken)
         /\ UNCHANGED <<cToken, cPoints, cTunnels, authNotice>>
         /\ UNCHANGED panelVars
    ELSE /\ mode' = "login"
         /\ calls' = RemoveAt(calls, k)
         /\ UNCHANGED <<cToken, cUser, cPoints, cTunnels, authNotice, apiError>>
         /\ UNCHANGED panelVars

\* the rest of boot(), and the effect on [mode] that loads the lists
bootReturn(k) ==
    LET c == calls[k] IN
    IF c.reply.status = 200
    THEN /\ cUser' = c.reply.body.user
         /\ mode' = "app"
         /\ apiError' = ""
         /\ calls' = RemoveAt(calls, k) \o ListCalls(cToken)
         /\ UNCHANGED <<cToken, cPoints, cTunnels, authNotice>>
         /\ UNCHANGED panelVars
    ELSE /\ cToken' = NoToken
         /\ mode' = "login"
         /\ calls' = RemoveAt(calls, k)
         /\ UNCHANGED <<cUser, cPoints, cTunnels, authNotice, apiError>>
         /\ UNCHANGED panelVars

\* the catch clause of the functions of App
appCatch(k, what) ==
    IF calls[k].reply.status = 401
    THEN /\ logout("expired")
         /\ calls' = DropJournal(RemoveAt(calls, k))
         /\ UNCHANGED apiError
    ELSE /\ apiError' = what \o ErrorString(calls[k].reply)
         /\ calls' = RemoveAt(calls, k)
         /\ UNCHANGED <<cToken, cUser, mode, cPoints, cTunnels, authNotice>>
         /\ UNCHANGED panelVars

\* setPoints(Array.isArray(data) ? data : [])
ListData(r) == IF r.body.kind = "rows" THEN r.body.rows ELSE <<>>

\* the rest of loadPoints() and of loadTunnels()
loadPointsReturn(k) ==
    IF calls[k].reply.status = 200
    THEN /\ cPoints' = ListData(calls[k].reply)
         /\ calls' = RemoveAt(calls, k)
         /\ UNCHANGED <<cToken, cUser, mode, cTunnels, authNotice, apiError>>
         /\ UNCHANGED panelVars
    ELSE appCatch(k, "Nie moge pobrac punktow: ")

loadTunnelsReturn(k) ==
    IF calls[k].reply.status = 200
    THEN /\ cTunnels' = ListData(calls[k].reply)
         /\ calls' = RemoveAt(calls, k)
         /\ UNCHANGED <<cToken, cUser, mode, cPoints, authNotice, apiError>>
         /\ UNCHANGED panelVars
    ELSE appCatch(k, "Nie moge pobrac tuneli: ")

\* the new entity is selected, and JournalPanel's effect loads its journal
selectNew(k, kind, id) ==
    /\ jKind' = kind
    /\ jEntity' = id
    /\ setSelected(kind, id)
    /\ IF mode = "app" /\ <<kind, id>> # <<jKind, jEntity>>
       THEN /\ loading' = TRUE
            /\ jErr' = ""
            /\ calls' = Append(RemoveAt(calls, k),
                  Call("load", CommentRequest("c_list", authFetch, kind, id, 0, EmptyBody), 0))
       ELSE /\ calls' = RemoveAt(calls, k)
            /\ UNCHANGED <<loading, jErr>>
    /\ UNCHANGED <<items, draft, editingId, editingBody, busyActionId>>

\* the rest of addPoint() and of onDrawCreated()
addPointReturn(k) ==
    IF calls[k].reply.status = 200
    THEN /\ cPoints' = <<calls[k].reply.body>> \o cPoints
         /\ selectNew(k, "points", calls[k].reply.body.id)
         /\ UNCHANGED <<cToken, cUser, mode, cTunnels, authNotice, apiError>>
    ELSE appCatch(k, "Nie moge dodac punktu: ")

drawCreatedReturn(k) ==
    IF calls[k].reply.status = 200
    THEN /\ cTunnels' = <<calls[k].reply.body>> \o cTunnels
         /\ selectNew(k, "tunnels", calls[k].reply.body.id)
         /\ UNCHANGED <<cToken, cUser, mode, cPoints, authNotice, apiError>>
    ELSE appCatch(k, "Nie moge dodac tunelu: ")

\* prev.map((p) => (p.id === data.id ? data : p))
Patched(cache, data) ==
    [n \in DOMAIN cache |-> IF cache[n].id = data.id THEN data ELSE cache[n]]

\* prev.filter((p) => p.id !== id)
Without(cache, id) == SelectSeq(cache, LAMBDA e : e.id # id)

\* the cached point overwritten with the form the client sent
savePointReturn_Payload(k) ==
    IF calls[k].reply.status = 200
    THEN /\ cPoints' = [n \in DOMAIN cPoints |->
                          IF cPoints[n].id = calls[k].cap
                          THEN [cPoints[n] EXCEPT !.title = calls[k].req.body.title,
                                                  !.director = calls[k].req.body.director,
                                                  !.winner = calls[k].req.body.winner,
                                                  !.note = calls[k].req.body.note,
                                                  !.status = calls[k].req.body.status]
                          ELSE cPoints[n]]
         /\ calls' = RemoveAt(calls, k)
         /\ UNCHANGED <<cToken, cUser, mode, cTunnels, authNotice, apiError>>
         /\ UNCHANGED panelVars
    ELSE appCatch(k, "Nie moge zapisac punktu: ")

\* the rest of savePoint()
savePointReturn(k) ==
    IF calls[k].reply.status = 200
    THEN /\ cPoints' = Patched(cPoints, calls[k].reply.body)
         /\ calls' = RemoveAt(calls, k)
         /\ UNCHANGED <<cToken, cUser, mode, cTunnels, authNotice, apiError>>
         /\ UNCHANGED panelVars
    ELSE appCatch(k, "Nie moge zapisac punktu: ")

\* the rest of deletePoint(): no point is selected any more, so the panel
\* shows the selected tunnel, if any
deletePointReturn(k) ==
    IF calls[k].reply.status = 200
    THEN /\ cPoints' = Without(cPoints, calls[k].cap)
         /\ selectedPointId' = 0
         /\ jKind' = "tunnels"
         /\ jEntity' = IF Cached(cTunnels, selectedTunnelId) = {} THEN 0 ELSE selectedTunnelId
         /\ calls' = RemoveAt(calls, k)
         /\ UNCHANGED <<cToken, cUser, mode, cTunnels, authNotice, apiError>>
         /\ UNCHANGED <<selectedTunnelId, items, draft, editingId, editingBody, busyActionId,
                        jErr, loading>>
    ELSE appCatch(k, "Nie moge usunac punktu: ")

\* the rest of saveTunnelMeta()
saveTunnelMetaReturn(k) ==
    IF calls[k].reply.status = 200
    THEN /\ cTunnels' = Patched(cTunnels, calls[k].reply.body)
         /\ calls' = RemoveAt(calls, k)
         /\ UNCHANGED <<cToken, cUser, mode, cPoints, authNotice, apiError>>
         /\ UNCHANGED panelVars
    ELSE appCatch(k, "Nie moge zapisac tunelu: ")

\* the rest of deleteTunnel(id)
deleteTunnelReturn(k) ==
    LET c == calls[k]
        clear == c.cap.selectedTunnelId = c.cap.id
    IN
    IF c.reply.status = 200
    THEN /\ cTunnels' = Without(cTunnels, c.cap.id)
         /\ selectedTunnelId' = IF clear THEN 0 ELSE selectedTunnelId
         /\ jEntity' = IF jKind = "tunnels" /\ (clear \/ jEntity = c.cap.id) THEN 0 ELSE jEntity
         /\ calls' = RemoveAt(calls, k)
         /\ UNCHANGED <<cToken, cUser, mode, cPoints, authNotice, apiError>>
         /\ UNCHANGED <<jKind, selectedPointId, items, draft, editingId, editingBody,
                        busyActionId, jErr, loading>>
    ELSE appCatch(k, "Nie moge usunac tunelu: ")

\* the rest of the loop of onDrawEdited, and its catch clause
drawEditedReturn(k) ==
    LET c == calls[k]
        rest == Findable(c.cap.rest, c.cap.snap)
    IN
    IF c.reply.status = 200
    THEN /\ cTunnels' = Patched(cTunnels, c.reply.body)
         /\ calls' = IF rest = <<>>
                      THEN RemoveAt(calls, k)
                      ELSE Append(RemoveAt(calls, k),
                                  Call("drawEdited", EditRequest(c.cap.snap, rest[1]),
                                       [rest |-> Tail(rest), snap |-> c.cap.snap]))
         /\ UNCHANGED <<cToken, cUser, mode, cPoints, authNotice, apiError>>
         /\ UNCHANGED panelVars
    ELSE appCatch(k, "Nie moge zapisac geometrii tunelu: ")

\* onDrawDeleted whose catch clause keeps the error and does not reload
drawDeletedReturn_NoReload(k) ==
    LET c == calls[k]
        gone == {c.cap.ids[n] : n \in DOMAIN c.cap.ids}
        clear == c.cap.selectedTunnelId \in gone
    IN
    IF c.reply.status = 200 /\ c.cap.rest # <<>>
    THEN /\ calls' = Append(RemoveAt(calls, k),
                  Call("drawDeleted",
                       Request("t_delete", authFetch, EmptyBody, NumToStr(c.cap.rest[1])),
                       [c.cap EXCEPT !.rest = Tail(c.cap.rest)]))
         /\ UNCHANGED <<cToken, cUser>>
         /\ UNCHANGED appVars
         /\ UNCHANGED panelVars
    ELSE IF c.reply.status = 200
    THEN /\ cTunnels' = SelectSeq(cTunnels, LAMBDA t : t.id \notin gone)
         /\ selectedTunnelId' = IF clear THEN 0 ELSE selectedTunnelId
         /\ jEntity' = IF jKind = "tunnels" /\ (clear \/ jEntity \in gone) THEN 0 ELSE jEntity
         /\ calls' = RemoveAt(calls, k)
         /\ UNCHANGED <<cToken, cUser, mode, cPoints, authNotice, apiError>>
         /\ UNCHANGED <<jKind, selectedPointId, items, draft, editingId, editingBody,
                        busyActionId, jErr, loading>>
    ELSE appCatch(k, "Nie moge usunac tunelu: ")

\* the rest of the loop of onDrawDeleted, what follows the loop, and its
\* catch clause: loadTunnels() there clears the error it has just set
drawDeletedReturn(k) ==
    LET c == calls[k]
        gone == {c.cap.ids[n] : n \in DOMAIN c.cap.ids}
        clear == c.cap.selectedTunnelId \in gone
    IN
    IF c.reply.status = 200 /\ c.cap.rest # <<>>
    THEN /\ calls' = Append(RemoveAt(calls, k),
                  Call("drawDeleted",
                       Request("t_delete", authFetch, EmptyBody, NumToStr(c.cap.rest[1])),
                       [c.cap EXCEPT !.rest = Tail(c.cap.rest)]))
         /\ UNCHANGED <<cToken, cUser>>
         /\ UNCHANGED appVars
         /\ UNCHANGED panelVars
    ELSE IF c.reply.status = 200
    THEN /\ cTunnels' = SelectSeq(cTunnels, LAMBDA t : t.id \notin gone)
         /\ selectedTunnelId' = IF clear THEN 0 ELSE selectedTunnelId
         /\ jEntity' = IF jKind = "tunnels" /\ (clear \/ jEntity \in gone) THEN 0 ELSE jEntity
         /\ calls' = RemoveAt(calls, k)
         /\ UNCHANGED <<cToken, cUser, mode, cPoints, authNotice, apiError>>
         /\ UNCHANGED <<jKind, selectedPointId, items, draft, editingId, editingBody,
                        busyActionId, jErr, loading>>
    ELSE IF c.reply.status = 401
    THEN appCatch(k, "")
    ELSE /\ apiError' = ""
         /\ calls' = Append(RemoveAt(calls, k),
                  Call("loadTunnels", Request("t_list", authFetch, EmptyBody, ""), 0))
         /\ UNCHANGED <<cToken, cUser, mode, cPoints, cTunnels, authNotice>>
         /\ UNCHANGED panelVars

\* the other user agent receives its answer
peerReturn(k) ==
    /\ calls' = RemoveAt(calls, k)
    /\ UNCHANGED <<cToken, cUser>>
    /\ UNCHANGED appVars
    /\ UNCHANGED panelVars

\* a fetch of App returns to the function that awaits it
ReturnApp(k) ==
    /\ k \in DOMAIN calls
    /\ calls[k].state = "done"
    /\ calls[k].fn \in AppFns
    /\ CASE calls[k].fn = "login" -> loginReturn(k)
         [] calls[k].fn = "boot" -> bootReturn(k)
         [] calls[k].fn = "loadPoints" -> loadPointsReturn(k)
         [] calls[k].fn = "loadTunnels" -> loadTunnelsReturn(k)
         [] calls[k].fn = "addPoint" -> addPointReturn(k)
         [] calls[k].fn = "drawCreated" -> drawCreatedReturn(k)
         [] calls[k].fn = "savePoint" -> savePointReturn(k)
         [] calls[k].fn = "deletePoint" -> deletePointReturn(k)
         [] calls[k].fn = "saveTunnelMeta" -> saveTunnelMetaReturn(k)
         [] calls[k].fn = "deleteTunnel" -> deleteTunnelReturn(k)
         [] calls[k].fn = "peer" -> peerReturn(k)
         [] calls[k].fn = "drawEdited" -> drawEditedReturn(k)
         [] calls[k].fn = "drawDeleted" -> drawDeletedReturn(k)
    /\ UNCHANGED <<comments, commentSeq>>
    /\ req' = NoReq
    /\ resp' = NoResp
    /\ queries' = <<>>
    /\ UNCHANGED <<build, serving, now, dbUp, users, userSeq, points, pointSeq, everIds, issued>>
    /\ UNCHANGED <<tunnelVars, prov>>

\* the fetches of JournalPanel, served and returned
ServeJournal(k) ==
    /\ k \in DOMAIN calls
    /\ calls[k].fn \in JournalFns
    /\ ServeCall(k)

ReturnJournal(k) ==
    /\ k \in DOMAIN calls
    /\ calls[k].fn \in JournalFns
    /\ ReturnCall(k)

\* a request of another user agent that holds a token the server has issued
\* and the client no longer holds, sent while the client is idle
Replay(tok, op) ==
    /\ tok # cToken
    /\ calls = <<>>
    /\ CASE op = "me" -> Me(Bearer(tok))
         [] op = "list" -> ListPoints(Bearer(tok))
         [] op = "t_list" ->
               /\ req' = Request("t_list", Bearer(tok), EmptyBody, "")
               /\ resp' = TunnelListHandler(Bearer(tok)).resp
               /\ queries' = <<>>
               /\ UNCHANGED <<build, serving, now, dbUp, users, userSeq, points, pointSeq,
                              everIds, issued>>
               /\ UNCHANGED <<journalVars, tunnelVars, appVars, prov>>
         [] op = "c_list" ->
               /\ Serve(CommentRequest("c_list", Bearer(tok), "points", 1, 0, EmptyBody),
                        CommentListHandler(Bearer(tok), "points", 1))
               /\ UNCHANGED <<cUser, cToken, calls>>
               /\ UNCHANGED panelVars

ReplayOps == {"me", "list", "t_list", "c_list"}

\* part_004 is running and the client shows the login screen
InitApp == InitServer({B_part004})

NextApp ==
    \/ \E cr \in Credentials : onLoginSubmit(cr)
    \/ Logout
    \/ \E l \in DrawnLayers : onDrawCreated(l)
    \/ addPoint(LatLng(52, 21))
    \/ \E kind \in {"points", "tunnels"}, id \in 1..MaxPointId : SelectCached(kind, id)
    \/ \E k \in 1..MaxAppInflight : ServeApp(k)
    \/ \E k \in 1..MaxAppInflight : ReturnApp(k)
    \/ \E k \in 1..MaxAppInflight : ServeJournal(k)
    \/ \E k \in 1..MaxAppInflight : ReturnJournal(k)
    \/ \E i \in issued, op \in ReplayOps : Replay(i.tok, op)
    \/ Tick

SpecApp == InitApp /\ [][NextApp]_vars

\* App selects another entity while fetches of the panel may be in flight:
\* the effect on [visible, kind, entityId] runs load() for the new entity
SwitchTo(sel) ==
    /\ mode = "app"
    /\ sel # <<jKind, jEntity>>
    /\ Len(calls) < MaxAppInflight
    /\ jKind' = sel[1]
    /\ jEntity' = sel[2]
    /\ setSelected(sel[1], sel[2])
    /\ loading' = TRUE
    /\ jErr' = ""
    /\ calls' = Append(calls,
           Call("load", CommentRequest("c_list", authFetch, sel[1], sel[2], 0, EmptyBody), 0))
    /\ UNCHANGED <<items, draft, editingId, editingBody, busyActionId>>
    /\ UNCHANGED <<cUser, cToken, comments, commentSeq>>
    /\ NoExchange

\* part_004 is running, the first account is signed in, a point and a tunnel
\* exist, the point has one journal entry and the user has typed a draft
InitSwitch ==
    LET u == [id |-> 1, email |-> "a@x"]
        t == TunnelRow(1, "Nowy tunel", "", "", "", "planowany",
                       toPath(JArr(<<LatLng(52, 21), LatLng(53, 22)>>)))
    IN
    /\ build = B_part004
    /\ serving = TRUE
    /\ now = 0
    /\ dbUp = TRUE
    /\ users = InitUsers
    /\ userSeq = 3
    /\ points = {PointRow(1, JStr("Nowy punkt"), JStr(""), JStr(""), JStr(""),
                          JStr("planowany"), Fin(52), Fin(21))}
    /\ pointSeq = 2
    /\ everIds = {1}
    /\ issued = {Issue(signToken(u, 0), u, "login")}
    /\ req = NoReq
    /\ resp = NoResp
    /\ queries = <<>>
    /\ comments = {CommentRow(1, "points", 1, u, "x")}
    /\ commentSeq = 2
    /\ cUser = u
    /\ cToken = signToken(u, 0)
    /\ jKind = "tunnels"
    /\ jEntity = 0
    /\ selectedPointId = 0
    /\ selectedTunnelId = 0
    /\ items = <<>>
    /\ draft = "y"
    /\ editingId = 0
    /\ editingBody = ""
    /\ busyActionId = 0
    /\ jErr = ""
    /\ loading = FALSE
    /\ calls = <<>>
    /\ tunnels = {t}
    /\ tunnelSeq = 2
    /\ mode = "app"
    /\ cPoints = <<RowJson(CHOOSE r \in points : TRUE)>>
    /\ cTunnels = <<t>>
    /\ authNotice = ""
    /\ apiError = ""
    /\ prov = {[id |-> 1, creator |-> 1, editor |-> 0]}

NextSwitch ==
    \/ \E sel \in {<<"points", 1>>, <<"tunnels", 1>>} : SwitchTo(sel)
    \/ addComment
    \/ \E k \in 1..MaxAppInflight : ServeJournal(k)
    \/ \E k \in 1..MaxAppInflight : ReturnJournal(k)

SpecSwitch == InitSwitch /\ [][NextSwitch]_vars

(***************************************************************************)
(* Editing: the signed-in client saves and deletes the selected point or   *)
(* tunnel while a second user agent, signed in as the other account, saves *)
(* the same point                                                          *)
(***************************************************************************)
OtherAccount == [id |-> 2, email |-> "b@x"]

\* PUT /api/points/1 of the other user agent
PeerSave(f) ==
    /\ Len(calls) < MaxAppInflight
    /\ ~Busy("peer")
    /\ calls' = Append(calls,
           Call("peer",
                Request("update", Bearer(signToken(OtherAccount, 0)),
                        [EmptyBody EXCEPT !.title = f.title, !.director = f.director,
                                          !.winner = f.winner, !.note = f.note,
                                          !.status = f.status], "1"),
                0))
    /\ UNCHANGED <<cUser, cToken, comments, commentSeq>>
    /\ UNCHANGED panelVars
    /\ NoExchange

\* every field of the form emptied
EmptyForm == Form("", "")

\* the polyline drawn while editing
DrawnLayer == JArr(<<LatLng(52, 21), LatLng(53, 22)>>)

PeerForms == {Form("B", "przetarg"), Form("C", "")}

InitEdit ==
    LET u == [id |-> 1, email |-> "a@x"]
        t == TunnelRow(1, "Nowy tunel", "", "", "", "planowany",
                       toPath(JArr(<<LatLng(52, 21), LatLng(53, 22)>>)))
    IN
    /\ build = B_part004
    /\ serving = TRUE
    /\ now = 0
    /\ dbUp = TRUE
    /\ users = InitUsers
    /\ userSeq = 3
    /\ points = {PointRow(1, JStr("Nowy punkt"), JStr(""), JStr(""), JStr(""),
                          JStr("planowany"), Fin(52), Fin(21))}
    /\ pointSeq = 2
    /\ everIds = {1}
    /\ issued = {Issue(signToken(u, 0), u, "login"),
                 Issue(signToken(OtherAccount, 0), OtherAccount, "login")}
    /\ req = NoReq
    /\ resp = NoResp
    /\ queries = <<>>
    /\ comments = {CommentRow(1, "points", 1, u, "x")}
    /\ commentSeq = 2
    /\ cUser = u
    /\ cToken = signToken(u, 0)
    /\ jKind = "tunnels"
    /\ jEntity = 0
    /\ selectedPointId = 0
    /\ selectedTunnelId = 0
    /\ items = <<>>
    /\ draft = ""
    /\ editingId = 0
    /\ editingBody = ""
    /\ busyActionId = 0
    /\ jErr = ""
    /\ loading = FALSE
    /\ calls = <<>>
    /\ tunnels = {t}
    /\ tunnelSeq = 2
    /\ mode = "app"
    /\ cPoints = <<RowJson(CHOOSE r \in points : TRUE)>>
    /\ cTunnels = <<t>>
    /\ authNotice = ""
    /\ apiError = ""
    /\ prov = {[id |-> 1, creator |-> 1, editor |-> 0]}

NextEdit ==
    \/ \E kind \in {"points", "tunnels"}, id \in 1..MaxPointId : SelectCached(kind, id)
    \/ Deselect
    \/ Reload
    \/ addPoint(LatLng(52, 21))
    \/ onDrawCreated(DrawnLayer)
    \/ savePoint(EmptyForm)
    \/ deletePoint
    \/ saveTunnelMeta(EmptyForm)
    \/ deleteTunnel
    \/ Logout
    \/ \E k \in 1..MaxAppInflight : ServeApp(k)
    \/ \E k \in 1..MaxAppInflight : ReturnApp(k)
    \/ \E k \in 1..MaxAppInflight : ServeJournal(k)
    \/ \E k \in 1..MaxAppInflight : ReturnJournal(k)
    \/ Tick
    \/ DbFail
    \/ DbRecover

SpecEdit == InitEdit /\ [][NextEdit]_vars

PointForms == {Form("A", "realizacja"), Form("", "")}

\* two user agents save point 1 at the same time: the client, signed in as
\* the first account with the point selected, and the other account
NextConcurrent ==
    \/ SelectCached("points", 1)
    \/ \E f \in PointForms : savePoint(f)
    \/ \E f \in PeerForms : PeerSave(f)
    \/ \E k \in 1..MaxAppInflight : ServeApp(k)
    \/ \E k \in 1..MaxAppInflight : ReturnApp(k)
    \/ \E k \in 1..MaxAppInflight : ServeJournal(k)
    \/ \E k \in 1..MaxAppInflight : ReturnJournal(k)

SpecConcurrent == InitEdit /\ [][NextConcurrent]_vars

(***************************************************************************)
(* Editing and deleting the polylines of tunnels with the draw toolbar     *)
(***************************************************************************)
\* the path a polyline has after its vertices were dragged
EditedPath == toPath(JArr(<<LatLng(52, 21), LatLng(54, 23)>>))

\* the layers handed to onDrawEdited, as {id, path}
EditedLayers ==
    { <<[id |-> 1, path |-> EditedPath]>>,
      <<[id |-> 1, path |-> EditedPath], [id |-> 2, path |-> EditedPath]>> }

\* the ids of the layers handed to onDrawDeleted
DeletedLayers == { <<1>>, <<1, 2>> }

\* PUT /api/tunnels/1 of the other account with new metadata and the stored
\* path, answered at once
PeerTunnelSave(f) ==
    LET old == TunnelsById("1")
        b == [EmptyBody EXCEPT !.name = f.title, !.director = f.director,
                               !.winner = f.winner, !.status = f.status, !.note = f.note,
                               !.path = JArr((CHOOSE t \in old : TRUE).path)]
        r == Request("t_update", Bearer(signToken(OtherAccount, 0)), b, "1")
        out == TunnelUpdateHandler(r.hdr, r.id, r.body)
    IN
    /\ mode = "app"
    /\ old # {}
    /\ out.tunnels # tunnels
    /\ req' = r
    /\ resp' = out.resp
    /\ queries' = <<>>
    /\ tunnels' = out.tunnels
    /\ tunnelSeq' = out.tunnelSeq
    /\ UNCHANGED <<build, serving, now, dbUp, users, userSeq, points, pointSeq, everIds,
                   issued, prov>>
    /\ UNCHANGED <<journalVars, appVars>>

\* the state of InitEdit with a second tunnel stored and cached
InitDraw ==
    LET u == [id |-> 1, email |-> "a@x"]
        path == toPath(JArr(<<LatLng(52, 21), LatLng(53, 22)>>))
        t1 == TunnelRow(1, "Nowy tunel", "", "", "", "planowany", path)
        t2 == TunnelRow(2, "Nowy tunel", "", "", "", "planowany", path)
    IN
    /\ build = B_part004
    /\ serving = TRUE
    /\ now = 0
    /\ dbUp = TRUE
    /\ users = InitUsers
    /\ userSeq = 3
    /\ points = {PointRow(1, JStr("Nowy punkt"), JStr(""), JStr(""), JStr(""),
                          JStr("planowany"), Fin(52), Fin(21))}
    /\ pointSeq = 2
    /\ everIds = {1}
    /\ issued = {Issue(signToken(u, 0), u, "login"),
                 Issue(signToken(OtherAccount, 0), OtherAccount, "login")}
    /\ req = NoReq
    /\ resp = NoResp
    /\ queries = <<>>
    /\ comments = {}
    /\ commentSeq = 1
    /\ cUser = u
    /\ cToken = signToken(u, 0)
    /\ jKind = "tunnels"
    /\ jEntity = 0
    /\ selectedPointId = 0
    /\ selectedTunnelId = 0
    /\ items = <<>>
    /\ draft = ""
    /\ editingId = 0
    /\ editingBody = ""
    /\ busyActionId = 0
    /\ jErr = ""
    /\ loading = FALSE
    /\ calls = <<>>
    /\ tunnels = {t1, t2}
    /\ tunnelSeq = 3
    /\ mode = "app"
    /\ cPoints = <<RowJson(CHOOSE r \in points : TRUE)>>
    /\ cTunnels = <<t2, t1>>
    /\ authNotice = ""
    /\ apiError = ""
    /\ prov = {[id |-> 1, creator |-> 1, editor |-> 0]}

NextDraw ==
    \/ \E updates \in EditedLayers : onDrawEdited(updates)
    \/ \E f \in PeerForms : PeerTunnelSave(f)
    \/ Reload
    \/ \E k \in 1..MaxAppInflight : ServeApp(k)
    \/ \E k \in 1..MaxAppInflight : ReturnApp(k)
    \/ Tick
    \/ DbFail
    \/ DbRecover

SpecDraw == InitDraw /\ [][NextDraw]_vars

NextErase ==
    \/ \E ids \in DeletedLayers, ok \in BOOLEAN : onDrawDeleted(ids, ok)
    \/ \E k \in 1..MaxAppInflight : ServeApp(k)
    \/ \E k \in 1..MaxAppInflight : ReturnApp(k)
    \/ Tick
    \/ DbFail
    \/ DbRecover

\* every fetch is answered and every answered fetch returns
SpecEraseLive ==
    /\ InitDraw
    /\ [][NextErase]_vars
    /\ WF_vars(\E k \in 1..MaxAppInflight : ServeApp(k))
    /\ WF_vars(\E k \in 1..MaxAppInflight : ReturnApp(k))

\* the tokens localStorage can hold when the page is opened: none, one the
\* server issued to the first account, or text that is no token
StoredTokens == {NoToken, signToken([id |-> 1, email |-> "a@x"], 0), GarbageToken}

\* part_004 is running and the page is opened: App mounts in mode "checking"
InitBoot ==
    /\ build = B_part004
    /\ serving = TRUE
    /\ now = 0
    /\ dbUp = TRUE
    /\ users = InitUsers
    /\ userSeq = 3
    /\ points = {}
    /\ pointSeq = 1
    /\ everIds = {}
    /\ cToken \in StoredTokens
    /\ issued = IF cToken.kind = "jwt"
                THEN {Issue(cToken, [id |-> 1, email |-> "a@x"], "earlier login")}
                ELSE {}
    /\ req = NoReq
    /\ resp = NoResp
    /\ queries = <<>>
    /\ comments = {}
    /\ commentSeq = 1
    /\ cUser = NoUser
    /\ jKind = "tunnels"
    /\ jEntity = 0
    /\ selectedPointId = 0
    /\ selectedTunnelId = 0
    /\ items = <<>>
    /\ draft = ""
    /\ editingId = 0
    /\ editingBody = ""
    /\ busyActionId = 0
    /\ jErr = ""
    /\ loading = FALSE
    /\ calls = <<>>
    /\ tunnels = {}
    /\ tunnelSeq = 1
    /\ mode = "checking"
    /\ cPoints = <<>>
    /\ cTunnels = <<>>
    /\ authNotice = ""
    /\ apiError = ""
    /\ prov = {}

NextBoot ==
    \/ boot
    \/ \E cr \in Credentials : onLoginSubmit(cr)
    \/ Logout
    \/ \E k \in 1..MaxAppInflight : ServeApp(k)
    \/ \E k \in 1..MaxAppInflight : ReturnApp(k)
    \/ Tick
    \/ DbFail
    \/ DbRecover

SpecBoot == InitBoot /\ [][NextBoot]_vars

\* the effect runs once App has mounted, the server answers every request
\* it receives, and the continuation of an answered fetch runs
SpecBootLive ==
    /\ InitBoot
    /\ [][NextBoot]_vars
    /\ WF_vars(boot)
    /\ WF_vars(\E k \in 1..MaxAppInflight : ServeApp(k))
    /\ WF_vars(\E k \in 1..MaxAppInflight : ReturnApp(k))

(***************************************************************************)
(* Notions the claims are stated in                                        *)
(***************************************************************************)
PointOps == {"list", "create", "update", "delete"}

\* the header has the form "Bearer <credentials>"
CarriesBearer(h) == h.present /\ h.scheme \in {"Bearer", "bearer"} /\ h.ws >= 1

\* the token bears the server's signature over its payload and has not expired
Verifies(tok) ==
    /\ tok.kind = "jwt"
    /\ tok.sig.key = JWT_SECRET
    /\ tok.sig.sub = tok.sub /\ tok.sig.email = tok.email
    /\ tok.sig.iat = tok.iat /\ tok.sig.exp = tok.exp
    /\ now < tok.exp

Authenticated(h) == CarriesBearer(h) /\ Verifies(h.tok)

\* the submitted credentials, normalized, are those of a stored user
NoSuchUser(b) == \A u \in users : u.email # LoginEmail(b)

WrongPassword(b) ==
    \E u \in users : u.email = LoginEmail(b)
                     /\ ~BcryptCompare(LoginPassword(b), u.password_hash)

CredentialsMatch(b) ==
    \E u \in users : u.email = LoginEmail(b)
                     /\ BcryptCompare(LoginPassword(b), u.password_hash)

\* the request names an email and a password
HasCredentials(b) == LoginEmail(b) # "" /\ LoginPassword(b) # ""

\* the field is a JSON number (JSON has no NaN and no Infinity)
FiniteNumber(v) == v.t = "number"

(***************************************************************************)
(* Claims                                                                  *)
(***************************************************************************)

\* C1: a points request (list, create, update, delete) that carries no bearer
\* token, or one that fails verification, is answered 401 and sends no query
\* to the store.
Claim_C1 ==
    (req.op \in PointOps /\ ~Authenticated(req.hdr))
        => (resp.status = 401 /\ queries = <<>>)

Claim_C3 ==
    (req.op = "login" /\ dbUp)
        => IF CredentialsMatch(req.body)
           THEN resp.status = 200 /\ resp.body.kind = "session"
           ELSE resp.status = 401 /\ resp.body.kind = "error"

\* C4: GET /api/auth/me is answered 200 exactly when the request carries a
\* bearer token that login issued and that has not expired, the user returned
\* is the one the token was issued to, and every other request is answered 401.
Thm_C4 ==
    req.op = "me" =>
        LET mine == {i \in issued : i.by = "login" /\ CarriesBearer(req.hdr)
                                    /\ i.tok = req.hdr.tok /\ now < i.tok.exp}
        IN  IF mine # {}
            THEN /\ resp.status = 200
                 /\ \A i \in mine : resp.body.user = i.user
                 /\ \E u \in users : resp.body.user = [id |-> u.id, email |-> u.email]
            ELSE resp.status = 401

Witness_C4 ==
    /\ req.op = "me"
    /\ resp.status = 200
    /\ now = TickDays
    /\ \E i \in issued : i.tok.iat = 0

Targets(r, c) == c.id = r.cid /\ c.entity_kind = r.kind /\ c.entity_id = r.eid

\* the user a verified header speaks for
Caller(h) == [id |-> h.tok.sub, email |-> h.tok.email]

\* the fetch the step returns to the panel
Returns(k) == k \in DOMAIN calls /\ calls[k].state = "done" /\ calls' = RemoveAt(calls, k)

\* C6: an update of a comment by an authenticated user other than its author
\* is answered 403 and leaves every comment as it was; an update by the author
\* is answered 200 with the comment, whose body is the submitted one and whose
\* edited flag is true, nothing else in the store changing.  JournalPanel
\* sends an update only for a comment of the signed-in user, and on success
\* shows the returned comment in place of the old one.
Thm_C6 ==
    [][/\ \A c \in comments :
            (req'.op = "c_update" /\ Targets(req', c) /\ Authenticated(req'.hdr)) =>
                IF Caller(req'.hdr).id # c.user_id
                THEN resp'.status = 403 /\ comments' = comments
                ELSE LET new == [c EXCEPT !.body = req'.body.body.s, !.edited = TRUE] IN
                     /\ resp'.status = 200
                     /\ resp'.body = new
                     /\ comments' = (comments \ {c}) \cup {new}
       /\ \A k \in DOMAIN calls' :
            calls'[k].fn = "save" =>
                \A c \in comments' : c.id = calls'[k].req.cid => c.user_id = cUser.id
       /\ \A k \in DOMAIN calls :
            (Returns(k) /\ calls[k].fn = "save" /\ calls[k].reply.status = 200) =>
                \A n \in DOMAIN items' :
                    items'[n].id = calls[k].req.cid =>
                        items'[n] = calls[k].reply.body /\ items'[n].edited]_vars

\* the author has edited the comment from the panel, and another user's
\* update of it has just been refused
Witness_C6 ==
    /\ req.op = "c_update"
    /\ resp.status = 403
    /\ Caller(req.hdr).id = 2
    /\ \E c \in comments : c.id = req.cid /\ c.user_id = 1 /\ c.edited /\ c.body = "y"

\* C7: a delete of a comment by an authenticated user other than its author is
\* answered 403 and the comment is still stored; a delete by the author removes
\* it.  A list of the entity's comments returns every comment of the entity,
\* whoever wrote it, and JournalPanel.load shows every comment returned.
Thm_C7 ==
    [][/\ \A c \in comments :
            (req'.op = "c_delete" /\ Targets(req', c) /\ Authenticated(req'.hdr)) =>
                IF Caller(req'.hdr).id # c.user_id
                THEN resp'.status = 403 /\ c \in comments' /\ comments' = comments
                ELSE resp'.status = 200 /\ comments' = comments \ {c}
       /\ (req'.op = "c_list" /\ Authenticated(req'.hdr)) =>
            /\ resp'.status = 200
            /\ \A c \in comments :
                 (c.entity_kind = req'.kind /\ c.entity_id = req'.eid) =>
                     \E n \in DOMAIN resp'.body.rows : resp'.body.rows[n] = c
       /\ \A k \in DOMAIN calls :
            (Returns(k) /\ calls[k].fn = "load" /\ calls[k].reply.status = 200) =>
                \A n \in DOMAIN calls[k].reply.body.rows :
                    \E m \in DOMAIN items' : items'[m] = calls[k].reply.body.rows[n]]_vars

\* the panel of the first user shows a comment of the second, and the second
\* user's delete of a comment of the first has just been refused
Witness_C7 ==
    /\ req.op = "c_delete"
    /\ resp.status = 403
    /\ Caller(req.hdr).id = 2
    /\ \E c \in comments : c.id = req.cid /\ c.user_id = 1
    /\ \E n \in DOMAIN items : items[n].user_id = 2 /\ items[n] \in comments

\* C8: every stored point's status is one of planowany, przetarg, realizacja,
\* nieaktualny.
Claim_C8 == \A r \in points : r.status \in {JStr(st) : st \in STATUSES}

\* C9: an authenticated create whose lat and lng are numbers, with the store
\* reachable, returns and stores a point whose id is the id of no point that
\* exists or ever existed, and whose status is planowany when the request
\* omits status.
Thm_C9 ==
    [][(req'.op = "create" /\ Authenticated(req'.hdr) /\ dbUp
            /\ FiniteNumber(req'.body.lat) /\ FiniteNumber(req'.body.lng))
        => /\ resp'.status = 200
           /\ resp'.body.id \notin everIds
           /\ resp'.body.id \notin {r.id : r \in points}
           /\ \E r \in points' : r.id = resp'.body.id /\ RowJson(r) = resp'.body
           /\ req'.body.status = JUndef => resp'.body.status = JStr("planowany")]_vars

Witness_C9 ==
    /\ req.op = "create"
    /\ resp.status = 200
    /\ req.body.status = JUndef
    /\ resp.body.status = JStr("planowany")
    /\ resp.body.id = 2
    /\ 1 \in everIds
    /\ {r.id : r \in points} = {2}

\* C10: an authenticated create whose lat or lng is missing or is not a finite
\* number is answered 400 and adds no point.
Claim_C10 ==
    (req.op = "create" /\ Authenticated(req.hdr)
        /\ ~(FiniteNumber(req.body.lat) /\ FiniteNumber(req.body.lng)))
        => resp.status = 400

\* the :id of the request is a number that no stored point has
AbsentId(r) == r.id # "" /\ AllDigits(r.id) /\ \A p \in points : p.id # DigitsVal(r.id)

\* the stored points the :id of the request names
Named(r) == {p \in points : r.id # "" /\ AllDigits(r.id) /\ p.id = DigitsVal(r.id)}

\* C11: with the database up, an authenticated update or delete of an id that
\* is not in the table is answered 404 and leaves the table as it was, and
\* an authenticated delete of a stored id is answered 200 and removes that
\* point and no other.
Claim_C11 ==
    [][(req'.op \in {"update", "delete"} /\ Authenticated(req'.hdr) /\ dbUp) =>
          /\ AbsentId(req') => (resp'.status = 404 /\ points' = points)
          /\ (req'.op = "delete" /\ Named(req') # {}) =>
                (resp'.status = 200 /\ points' = points \ Named(req'))]_vars

\* C12: no update, whatever its body holds, changes the set of ids or the
\* lat or lng of any point, and no update changes any field of a point other
\* than the one its :id names.
Thm_C12 ==
    [][req'.op = "update" =>
          /\ {p.id : p \in points'} = {p.id : p \in points}
          /\ \A p \in points :
                \E q \in points' :
                    /\ q.id = p.id /\ q.lat = p.lat /\ q.lng = p.lng
                    /\ p \notin Named(req') => q = p]_vars

\* an update whose body carries lat 99 has succeeded, and the point is where
\* it was created
Witness_C12 ==
    /\ req.op = "update"
    /\ resp.status = 200
    /\ req.body.lat = JNum(99)
    /\ \E p \in points : p.id = resp.body.id /\ p.lat = Fin(52) /\ p.title = JStr("T2")

\* C13: whoever created a point, an update or a delete of it by any
\* authenticated user succeeds (the update storing the submitted status, the
\* delete removing the point), and a list by any authenticated user returns
\* exactly the stored rows, so every user sees the status another user set.
Thm_C13 ==
    [][/\ (req'.op = "update" /\ Authenticated(req'.hdr) /\ Named(req') # {}) =>
            /\ resp'.status = 200
            /\ resp'.body.status = req'.body.status
            /\ \E q \in points' : RowJson(q) = resp'.body /\ q.id = DigitsVal(req'.id)
       /\ (req'.op = "delete" /\ Authenticated(req'.hdr) /\ Named(req') # {}) =>
            /\ resp'.status = 200
            /\ points' = points \ Named(req')
       /\ (req'.op = "list" /\ Authenticated(req'.hdr)) =>
            /\ resp'.status = 200
            /\ {resp'.body.rows[n] : n \in DOMAIN resp'.body.rows}
                 = {RowJson(p) : p \in points}]_vars

\* the first account lists the points and gets the point it created with the
\* status 'realizacja' that the second account has set
Witness_C13 ==
    /\ req.op = "list"
    /\ Caller(req.hdr).id = 1
    /\ resp.status = 200
    /\ \E n \in DOMAIN resp.body.rows :
          /\ resp.body.rows[n].status = JStr("realizacja")
          /\ \E p \in prov : p.id = resp.body.rows[n].id /\ p.creator = 1 /\ p.editor = 2

\* the ids of the stored points in the orders a list can return them
IdOrders == { [i \in DOMAIN s |-> s[i].id] : s \in ListOrders }

BodyText(r) == IF r.body.body.t = "string" THEN r.body.body.s ELSE ""

\* C15: a create of a comment whose body is blank after trimming stores no
\* comment; an authenticated create with a body stores exactly one comment,
\* whose user_id and user_email are those of the caller whatever the request
\* body names; and JournalPanel sends a create only with a trimmed, non-empty
\* body.
Thm_C15 ==
    [][/\ req'.op = "c_create" =>
            IF Authenticated(req'.hdr) /\ Trim(BodyText(req')) # ""
            THEN /\ resp'.status = 200
                 /\ resp'.body.user_id = Caller(req'.hdr).id
                 /\ resp'.body.user_email = Caller(req'.hdr).email
                 /\ resp'.body.body = Trim(BodyText(req'))
                 /\ resp'.body \notin comments
                 /\ comments' = comments \cup {resp'.body}
            ELSE resp'.status \in {400, 401} /\ comments' = comments
       /\ \A k \in DOMAIN calls' :
            calls'[k].fn = "add" =>
                /\ BodyText(calls'[k].req) # ""
                /\ Trim(BodyText(calls'[k].req)) = BodyText(calls'[k].req)]_vars

\* the second account has created a comment with a body that names the first
\* account as author, and the comment is stored as the second account's,
\* while the panel holds a whitespace draft and has sent nothing
Witness_C15 ==
    /\ req.op = "c_create"
    /\ req.body.user_id = JNum(1)
    /\ Caller(req.hdr).id = 2
    /\ resp.status = 200
    /\ resp.body.user_id = 2
    /\ resp.body.user_email = "b@x"
    /\ resp.body \in comments
    /\ draft = " "
    /\ calls = <<>>

ExpiredNotice == "Sesja wygasla - zaloguj sie ponownie."

\* the client is back at the login screen with nothing of the session left
SessionDropped ==
    /\ cToken = NoToken
    /\ cPoints = <<>>
    /\ cTunnels = <<>>
    /\ mode = "login"
    /\ authNotice = ExpiredNotice

\* C17: whenever a call of the client to an authenticated route (a load of
\* the points or the tunnels, a create of a point or a tunnel, or a call of
\* the journal) returns with status 401, the client removes the stored
\* token, empties the points and tunnels caches and shows the login screen
\* with the session-expired notice.
Claim_C17 ==
    [][\A k \in 1..MaxAppInflight :
          ( /\ k \in DOMAIN calls
            /\ calls[k].fn # "login"
            /\ calls[k].reply.status = 401
            /\ ReturnApp(k) \/ ReturnJournal(k) )
          => SessionDropped']_vars

\* C18: a token the server has issued passes authRequired exactly while it
\* has not expired, whatever the client has done since (logged out, or
\* logged in again): a request to an authenticated route that carries an
\* issued, unexpired token is never answered 401, and one that carries an
\* expired token always is.
Thm_C18 ==
    /\ \A i \in issued : authRequired(Bearer(i.tok), now).pass <=> now < i.tok.exp
    /\ \A i \in issued :
          (req.op \in {"me", "list", "create", "t_list", "t_create", "c_list"}
              /\ req.hdr = Bearer(i.tok)) =>
             (resp.status = 401 <=> now >= i.tok.exp)

\* the client has logged out, another account has signed in on it, and the
\* first token, not yet expired, has been accepted for a list of the points
Witness_C18 ==
    /\ mode = "app"
    /\ cUser.id = 2
    /\ \E i \in issued : i.user.id = 1 /\ now < i.tok.exp /\ req.hdr = Bearer(i.tok)
    /\ req.op = "list"
    /\ resp.status = 200

\* the status of a success, and an error answer: an error status with a JSON
\* body {error}
Succeeded(r) == r.status \in 200..299

ErrorAnswer(r) == r.status >= 400 /\ r.body.kind = "error"

\* C19: every request to a points route or to login is answered, either
\* with a success or with an error status and a JSON {error} body; a request
\* handled while the database cannot be reached is answered with an error;
\* a failed operation leaves the tables as they were; and the server process
\* is still running afterwards.
Claim_C19 ==
    [][req'.op \in PointOps \cup {"login"} =>
          /\ Succeeded(resp') \/ ErrorAnswer(resp')
          /\ ~dbUp => ErrorAnswer(resp')
          /\ ErrorAnswer(resp') => (points' = points /\ users' = users)
          /\ serving']_vars

\* C20: a response with a server-error status carries a JSON body with the
\* generic message only: no field of it holds the text of the failure.
Claim_C20 ==
    resp.status >= 500 =>
       /\ resp.body.kind = "error"
       /\ DOMAIN resp.body = {"kind", "error"}
       /\ resp.body.error = "DB error"


\* C26: an update of a stored point that is answered with a success stores
\* all five metadata fields from the body: title, director, winner and note
\* as sent, or as the empty string when omitted or empty, and status as
\* sent, or as 'planowany' when omitted.
Claim_C26 ==
    [][(req'.op = "update" /\ Succeeded(resp') /\ Named(req') # {}) =>
          \A p \in points' :
             p.id \in {q.id : q \in Named(req')} =>
                /\ Stored(p.title) = TextOr(req'.body.title, "")
                /\ Stored(p.director) = TextOr(req'.body.director, "")
                /\ Stored(p.winner) = TextOr(req'.body.winner, "")
                /\ Stored(p.note) = TextOr(req'.body.note, "")
                /\ Stored(p.status) = TextOr(req'.body.status, "planowany")]_vars

\* C27: whenever the login screen is shown, no token is stored and the
\* caches of points and tunnels are empty.
Claim_C27 ==
    mode = "login" => (cToken = NoToken /\ cPoints = <<>> /\ cTunnels = <<>>)

\* a fetch of the given function that has been answered, with or without
\* success
Answered(fn, ok) ==
    \E k \in DOMAIN calls :
        /\ calls[k].fn = fn
        /\ calls[k].state = "done"
        /\ (calls[k].reply.status = 200) = ok

\* C29: the mode starts as 'checking'.  With no stored token it goes to
\* 'login' and no request is sent; with a stored token it goes to 'app'
\* only when the /me request has succeeded, keeping the token, and to
\* 'login' only when it has failed, removing the token.  The mode leaves
\* 'checking' eventually and never returns to it.  'login' goes to 'app'
\* only on a successful login.  Whenever the mode is 'app', a token is
\* stored and the user is set.
Thm_C29 ==
    /\ mode = "checking"
    /\ [](mode = "checking" /\ cToken = NoToken => calls = <<>>)
    /\ [][(mode = "checking" /\ cToken = NoToken) =>
             (mode' \in {"checking", "login"} /\ calls' = <<>>)]_vars
    /\ [][(mode = "checking" /\ mode' = "app") =>
             (Answered("boot", TRUE) /\ cToken' = cToken /\ cToken # NoToken)]_vars
    /\ [][(mode = "checking" /\ cToken # NoToken /\ mode' = "login") =>
             (Answered("boot", FALSE) /\ cToken' = NoToken)]_vars
    /\ [][mode # "checking" => mode' # "checking"]_vars
    /\ [][(mode = "login" /\ mode' = "app") => Answered("login", TRUE)]_vars
    /\ [](mode = "app" => (cToken # NoToken /\ cUser # NoUser))
    /\ <>(mode # "checking")

\* the page was opened with a stored token that had expired: /me failed, the
\* token was removed, and the user has signed in again
Witness_C29 ==
    /\ mode = "app"
    /\ now = TickDays
    /\ cUser.id = 1
    /\ \E i \in issued : i.by = "earlier login" /\ i.tok # cToken
    /\ cToken.iat = now

\* C28: once no request of the journal is in flight, every comment the
\* panel shows is a comment of the entity that is selected.
Claim_C28 ==
    (calls = <<>> /\ jEntity # 0) =>
       \A n \in DOMAIN items :
          items[n].entity_kind = jKind /\ items[n].entity_id = jEntity

\* C30: selectedPointId and selectedTunnelId are never both non-null.
Thm_C30 == ~(selectedPointId # 0 /\ selectedTunnelId # 0)

Witness_C30 ==
    /\ selectedTunnelId = 1
    /\ selectedPointId = 0
    /\ items # <<>>
    /\ items[1].entity_kind = "points"

\* the functions of App that create, update or delete an entity
CrudFns == {"addPoint", "drawCreated", "savePoint", "saveTunnelMeta",
            "deletePoint", "deleteTunnel"}

\* the entries of a cache other than the one with this id are the same, in
\* the same order, before and after
OthersKept(before, after, id) ==
    SelectSeq(after, LAMBDA e : e.id # id) = SelectSeq(before, LAMBDA e : e.id # id)

\* what the continuation of call k does to the two caches; a failure
\* answered with a status in exempt is not constrained
CachePatching(k, exempt) ==
    LET c == calls[k]
        data == c.reply.body
        mine == IF c.fn \in {"addPoint", "savePoint", "deletePoint"} THEN cPoints ELSE cTunnels
        mineAfter == IF c.fn \in {"addPoint", "savePoint", "deletePoint"}
                     THEN cPoints' ELSE cTunnels'
        other == IF c.fn \in {"addPoint", "savePoint", "deletePoint"} THEN cTunnels ELSE cPoints
        otherAfter == IF c.fn \in {"addPoint", "savePoint", "deletePoint"}
                      THEN cTunnels' ELSE cPoints'
    IN
    IF c.reply.status # 200
    THEN c.reply.status \notin exempt => (cPoints' = cPoints /\ cTunnels' = cTunnels)
    ELSE /\ otherAfter = other
         /\ CASE c.fn \in {"addPoint", "drawCreated"} ->
                   /\ Len(mineAfter) = Len(mine) + 1
                   /\ mineAfter[1] = data
                   /\ Tail(mineAfter) = mine
              [] c.fn \in {"savePoint", "saveTunnelMeta"} ->
                   /\ Len(mineAfter) = Len(mine)
                   /\ OthersKept(mine, mineAfter, data.id)
                   /\ \A n \in DOMAIN mine : mine[n].id = data.id => mineAfter[n] = data
              [] c.fn \in {"deletePoint", "deleteTunnel"} ->
                   /\ \A n \in DOMAIN mineAfter : NumToStr(mineAfter[n].id) # c.req.id
                   /\ mineAfter = SelectSeq(mine, LAMBDA e : NumToStr(e.id) # c.req.id)

\* C24 as stated: after a successful create or update the cached entry of the
\* entity is the row the server returned, a created entity comes first,
\* after a successful delete the entity is absent, every other cached entry
\* is unchanged, and a failed request leaves the cache unchanged.
Claim_C24 ==
    [][\A k \in DOMAIN calls :
          (calls[k].fn \in CrudFns /\ ReturnApp(k)) => CachePatching(k, {})]_vars

\* C24, amended: the same, where a request that fails with a status other
\* than 401 leaves the cache unchanged (401 signs the user out).
Thm_C24 ==
    [][\A k \in DOMAIN calls :
          (calls[k].fn \in CrudFns /\ ReturnApp(k)) => CachePatching(k, {401})]_vars

Witness_C24 ==
    /\ mode = "app"
    /\ calls = <<>>
    /\ apiError = ""
    /\ Len(cPoints) = 2
    /\ cPoints[1].id = 2
    /\ cPoints[1].title = JStr("Nowy punkt")
    /\ cPoints[2].id = 1
    /\ cPoints[2].title = JStr("")
    /\ cPoints[2].status = JStr("planowany")
    /\ \A p \in points : p.id = 1 => RowJson(p) = cPoints[2]

\* the five metadata fields of a stored point
Metadata(p) == <<Stored(p.title), Stored(p.director), Stored(p.winner), Stored(p.note),
                 Stored(p.status)>>

\* the five metadata fields an update with this body stores
Normalized(b) == <<TextOr(b.title, ""), TextOr(b.director, ""), TextOr(b.winner, ""),
                   TextOr(b.note, ""), TextOr(b.status, "planowany")>>

\* C23: every one of the concurrent updates of a point succeeds, none is
\* answered Conflict, and after each the row equals in all five metadata
\* fields the normalized body of the update applied last; the row is never
\* a mixture of the fields of two updates.
Thm_C23 ==
    /\ [](resp.status # 409)
    /\ [][req'.op = "update" =>
            /\ resp'.status = 200
            /\ \A p \in points' : p.id = 1 => Metadata(p) = Normalized(req'.body)]_vars
    /\ [](\A p \in points :
            \/ Metadata(p) = <<"Nowy punkt", "", "", "", "planowany">>
            \/ \E f \in PointForms \cup PeerForms : Metadata(p) = Normalized(f))

Witness_C23 ==
    /\ Len(calls) = 2
    /\ calls[1].fn = "savePoint" /\ calls[1].state = "done" /\ calls[1].reply.status = 200
    /\ calls[2].fn = "peer" /\ calls[2].state = "done" /\ calls[2].reply.status = 200
    /\ calls[2].reply.body.title = JStr("B")
    /\ \A p \in points : Metadata(p) = <<"", "", "", "", "planowany">>

\* the calls of this function that are in flight
InFlight(q, fn) == {k \in DOMAIN q : q[k].fn = fn}

\* call k is a fetch of this function that returns a failure other than 401
FailsIn(k, fn) ==
    /\ calls[k].fn = fn
    /\ ReturnApp(k)
    /\ calls[k].reply.status \notin {200, 401}

\* C21: the PUTs of onDrawEdited go out one at a time, each after the
\* response to the one before; when one fails no later PUT is issued, the
\* earlier ones stay applied on the server, the user sees one error, and the
\* client reloads the tunnel list.
Claim_C21 ==
    /\ [](Cardinality(InFlight(calls, "drawEdited")) <= 1)
    /\ [][\A k \in DOMAIN calls :
             FailsIn(k, "drawEdited") =>
                /\ InFlight(calls', "drawEdited") = {}
                /\ tunnels' = tunnels
                /\ apiError' # "" /\ apiError = ""
                /\ InFlight(calls', "loadTunnels") # {}]_vars

\* the metadata of a tunnel
TunnelMeta(t) == <<t.name, t.director, t.winner, t.status, t.note>>

\* C25: a PUT of onDrawEdited that succeeds leaves the name, director,
\* winner, status and note the server stores for the tunnel as they were.
Claim_C25 ==
    [][\A k \in DOMAIN calls :
          (calls[k].fn = "drawEdited" /\ ServeApp(k) /\ resp'.status = 200) =>
             \A t \in tunnels, t2 \in tunnels' :
                t.id = t2.id => TunnelMeta(t2) = TunnelMeta(t)]_vars

\* the ids a cache or the table holds
IdsOf(rows) == {rows[n].id : n \in DOMAIN rows}

====
